---- MODULE Spec2Model ----
(***************************************************************************)
(* Mazenasium: maze generator, maze state (row rotation) and the           *)
(* turn/phase coordinator.                                                 *)
(*                                                                         *)
(* Tiles are heap objects (Go *Tile).  A tile pointer is modelled by the   *)
(* tile's ID (assigned once in NewState as y*width+x); `tiles` is the      *)
(* heap and Grid[y][x] holds a pointer.  Two cells holding the same ID     *)
(* alias one object.                                                       *)
(*                                                                         *)
(* The seeded source r := rand.New(rand.NewSource(seed)) is library code;  *)
(* it is a stream fixed by the seed.  rng = FreeRng leaves every draw      *)
(* open (any seed); rng >= 0 is the state of a concrete linear             *)
(* congruential stream.  The package-level rand.Shuffle of the NPCs is     *)
(* always open; the package-level rand.Intn of the path repair is open     *)
(* when globalRng = FreeRng and is otherwise bound to one stream per       *)
(* seeded state.                                                           *)
(*                                                                         *)
(* GenSpec: the generator alone, all sizes up to MaxGenSize, draws open.   *)
(* Spec: the game on a seeded maze.  MazeSpec: the maze surface called     *)
(* directly on a seeded maze.  SeededSpec: Generate run twice from one     *)
(* seed with the package-level source open.  ManagerSpec: turn.Manager     *)
(* and action.Manager called directly.  NPCSpec: npc.Manager called        *)
(* directly on a seeded maze.                                              *)
(***************************************************************************)
EXTENDS Integers, Sequences, FiniteSets, Bags, TLC

VARIABLES
    Width, Height,      \* maze.State.Width / Height
    Grid,               \* maze.State.Grid : [y -> [x -> tile pointer]]
    tiles,              \* heap of maze.Tile objects, by ID
    GoalX, GoalY,       \* maze.State.GoalX / GoalY
    gen,                \* position and locals of Generator.Generate
    rng,                \* state of the generator's seeded source r
    globalRng,          \* the package-level source of math/rand
    CurrentState,       \* state.Manager.CurrentState
    TurnManager,        \* turn.Manager: CurrentState (phase), CurrentOwner
    Player,             \* player.Player
    NPCs,               \* npc.Manager.NPCs
    Cooldowns,          \* action.Manager.Cooldowns
    Winner,             \* state.Manager.Winner
    TriviaMgr,          \* trivia.Manager: CurrentIndex, Answered
    xRotateActive,      \* state.Manager.xRotateActive
    xRotateDirection,   \* state.Manager.xRotateDirection
    call,               \* the last call made on the maze: arguments, result
    turnNo,             \* EndTurn calls made in the current game
    rotations,          \* PerformXRotate calls made on the current maze
    turnRotations,      \* rotations performed since the turn changed hands
    turnMoves,          \* moves each entity started since the turn changed hands
    lastTick,           \* the handler the last tick ran
    hist                \* the input of the last tick or direct call

gameVars == <<CurrentState, TurnManager, Player, NPCs, Cooldowns, Winner,
              TriviaMgr,
              xRotateActive, xRotateDirection, call, turnNo, rotations,
              turnRotations, turnMoves, lastTick, hist, globalRng>>
vars     == <<Width, Height, Grid, tiles, GoalX, GoalY, gen, rng, globalRng,
              CurrentState, TurnManager, Player, NPCs, Cooldowns, Winner,
              TriviaMgr, xRotateActive, xRotateDirection, call, turnNo,
              rotations, turnRotations, turnMoves, lastTick, hist>>

----------------------------------------------------------------------------
(* Bounds *)

\* largest width/height the generator is explored with under open draws
MaxGenSize == 7

\* mazeWidth = mazeHeight of state.New, which maze.New doubles
mazeWidth == 4

\* seeds rand.Int63() can hand to NewGenerator
NumSeeds == 2

\* EndTurn calls after which the player stops giving input
MaxTurns == 3

\* rotations after which the player stops confirming one
MaxRotations == 2

\* occupied positions handed to CheckXRotateCollisions directly
MaxOccupied == 2

\* rotations after which HighlightXRotation is still called directly
MaxHighlightedRotations == 1

\* width and height of the maze NewGame of cmd/game builds (10 there)
gameMazeWidth == 7

\* goroutines of updateTrivia that have not finished
MaxGoroutines == 2

\* rounds of NPC moves in a game of cmd/game
MaxGameRounds == 2

\* rotations the walking player confirms
MaxWalkRotations == 1

\* turns, of the player and of the NPCs, after which the walking player
\* presses no more movement keys
MaxWalkTurns == 11

\* rotations the player confirms in the games checked for progress
MaxLiveRotations == 1

\* largest moveSpeed Update is called with directly
MaxStep == 12

\* largest coordinate SetDestination is called with directly
MaxDestCoord == 2

\* new destinations given directly to a player on its way
MaxRedirects == 1

\* largest coordinate npc.New is called with directly
MaxNPCCoord == 2

\* PerformXRotate calls made directly on one maze
MaxDirectRotations == 1

\* maze.TileSize, the distance of one move
TileSize == 5

\* highest digit key the player presses
MaxDigit == 3

\* ticks an action stays on cooldown after use
RotateCooldown == 12

(* Program constants *)

\* smallest size the generator is specified for (width, height >= 6)
MinGenSize == 6

FreeRng == -1

\* the package-level source bound to the seeded state
BoundRng == 0

----------------------------------------------------------------------------
(* tile.go *)

Floor == "Floor"
Wall  == "Wall"
Goal  == "Goal"

NewTile(id, tileType, x, y) ==
    [ID |-> id, Type |-> tileType, X |-> x, Y |-> y,
     FlavorImage |-> "", Highlighted |-> FALSE]

----------------------------------------------------------------------------
(* math/rand stream *)

RngStep(s) == (s * 75 + 74) % 65537

\* state of the source after one Intn call
Adv(s) == IF s = FreeRng THEN s ELSE RngStep(s)

\* the values r.Intn(n) can return from source state s
Intn(s, n) == IF s = FreeRng THEN 0 .. (n - 1) ELSE {RngStep(s) % n}

----------------------------------------------------------------------------
(* maze.State *)

Pos(x, y) == <<x, y>>

InBounds(w, h, x, y) == x >= 0 /\ x < w /\ y >= 0 /\ y < h

\* NewState: every cell a fresh Wall tile, goal unset
NewStateGrid(w, h) == [y \in 0 .. h - 1 |-> [x \in 0 .. w - 1 |-> y * w + x]]

NewStateTiles(w, h) ==
    [id \in 0 .. w * h - 1 |-> NewTile(id, Wall, id % w, id \div w)]

\* GetTile: the pointer at (x,y), or Nil out of bounds
Nil == -1

GetTileIn(g, w, h, x, y) == IF InBounds(w, h, x, y) THEN g[y][x] ELSE Nil

GetTile(x, y) == GetTileIn(Grid, Width, Height, x, y)

TypeAtIn(g, t, w, h, x, y) ==
    IF InBounds(w, h, x, y) THEN t[g[y][x]].Type ELSE "nil"

TypeAt(x, y) == TypeAtIn(Grid, tiles, Width, Height, x, y)

\* SetTileType on heap t: the tile object in cell (x,y) changes type
SetTileTypeIn(g, t, w, h, x, y, tileType) ==
    IF InBounds(w, h, x, y)
    THEN [t EXCEPT ![g[y][x]].Type = tileType]
    ELSE t

SetTileType(x, y, tileType) ==
    SetTileTypeIn(Grid, tiles, Width, Height, x, y, tileType)

\* IsValidMove: in bounds and not a Wall
\* IsValidMove taking only Floor for a valid cell
IsValidMoveInFloorOnly(g, t, w, h, x, y) ==
    InBounds(w, h, x, y) /\ t[g[y][x]].Type = Floor

IsValidMoveIn(g, t, w, h, x, y) ==
    InBounds(w, h, x, y) /\ t[g[y][x]].Type # Wall

IsValidMove(x, y) == IsValidMoveIn(Grid, tiles, Width, Height, x, y)

----------------------------------------------------------------------------
(* generator.go *)

\* Directions: North, East, South, West
DirDx == <<0, 1, 0, -1>>
DirDy == <<-1, 0, 1, 0>>

Abs(x) == IF x < 0 THEN -x ELSE x

Neighbours4(p) ==
    {Pos(p[1] + DirDx[d], p[2] + DirDy[d]) : d \in 1 .. 4}

\* the cells hasPath's breadth-first search marks visited
RECURSIVE BfsVisited(_, _, _, _, _, _)
BfsVisited(g, t, w, h, seen, frontier) ==
    IF frontier = {} THEN seen
    ELSE LET next == {q \in UNION {Neighbours4(p) : p \in frontier} :
                         /\ InBounds(w, h, q[1], q[2])
                         /\ t[g[q[2]][q[1]]].Type # Wall
                         /\ q \notin seen}
         IN BfsVisited(g, t, w, h, seen \cup next, next)

hasPathIn(g, t, w, h, startX, startY, goalX, goalY) ==
    Pos(goalX, goalY) \in
        BfsVisited(g, t, w, h, {Pos(startX, startY)}, {Pos(startX, startY)})

hasPath(startX, startY, goalX, goalY) ==
    hasPathIn(Grid, tiles, Width, Height, startX, startY, goalX, goalY)

GenLocals(pc) ==
    [pc |-> pc, visited |-> {}, stack |-> <<>>, i |-> 0,
     currentX |-> 0, currentY |-> 0, hadPath |-> FALSE]

\* Generate up to the first pass of generatePathways' loop:
\* (startX,startY) is made Floor, marked visited and pushed
GenerateBegin ==
    /\ gen.pc = "init"
    /\ tiles' = SetTileType(1, 1, Floor)
    /\ gen' = [gen EXCEPT !.pc = "carve", !.visited = {Pos(1, 1)},
                          !.stack = <<Pos(1, 1)>>]
    /\ UNCHANGED <<Width, Height, Grid, GoalX, GoalY, rng>>
    /\ UNCHANGED gameVars

\* the directions (0..3) whose cell two steps away is inside the border
\* ring and unvisited
CarveNeighbors(current) ==
    SelectSeq(<<0, 1, 2, 3>>,
              LAMBDA d :
                LET nx == current[1] + DirDx[d + 1] * 2
                    ny == current[2] + DirDy[d + 1] * 2
                IN /\ nx >= 1 /\ nx < Width - 1
                   /\ ny >= 1 /\ ny < Height - 1
                   /\ Pos(nx, ny) \notin gen.visited)

\* one pass of generatePathways' loop
GeneratePathways ==
    /\ gen.pc = "carve"
    /\ Len(gen.stack) > 0
    /\ LET current   == gen.stack[Len(gen.stack)]
           neighbors == CarveNeighbors(current)
       IN IF Len(neighbors) > 0
          THEN \E k \in Intn(rng, Len(neighbors)) :
                 LET d  == neighbors[k + 1]
                     nx == current[1] + DirDx[d + 1] * 2
                     ny == current[2] + DirDy[d + 1] * 2
                     bx == current[1] + DirDx[d + 1]
                     by == current[2] + DirDy[d + 1]
                     t1 == SetTileType(bx, by, Floor)
                 IN /\ tiles' = SetTileTypeIn(Grid, t1, Width, Height,
                                              nx, ny, Floor)
                    /\ gen' = [gen EXCEPT
                                 !.visited = @ \cup {Pos(nx, ny)},
                                 !.stack = Append(@, Pos(nx, ny))]
                    /\ rng' = Adv(rng)
          ELSE /\ gen' = [gen EXCEPT
                            !.stack = SubSeq(@, 1, Len(@) - 1),
                            !.pc = IF Len(gen.stack) = 1
                                   THEN "paths" ELSE "carve"]
               /\ UNCHANGED <<tiles, rng>>
    /\ UNCHANGED <<Width, Height, Grid, GoalX, GoalY>>
    /\ UNCHANGED gameVars

ExtraPaths == (Width + Height) \div 3

\* addRandomPaths' count of adjacent floor tiles for the wall at (x,y),
\* with GetTile's arguments in the order the code passes them
FloorCount(x, y) ==
    LET IsFloorAt(a, b) == TypeAt(a, b) = Floor
    IN   (IF IsFloorAt(y - 1, x) THEN 1 ELSE 0)
       + (IF IsFloorAt(y + 1, x) THEN 1 ELSE 0)
       + (IF IsFloorAt(y, x - 1) THEN 1 ELSE 0)
       + (IF IsFloorAt(y, x + 1) THEN 1 ELSE 0)

\* one draw of addRandomPaths' inner loop; when the draw is a wall, the
\* rest of that pass of the outer loop
AddRandomPaths ==
    /\ gen.pc = "paths"
    /\ \E dx \in Intn(rng, Width - 2) :
         \E dy \in Intn(Adv(rng), Height - 2) :
           LET x == dx + 1
               y == dy + 1
           IN IF TypeAt(x, y) = Wall
                 /\ x > 0 /\ x < Width - 1 /\ y > 0 /\ y < Height - 1
              THEN /\ tiles' = IF FloorCount(x, y) >= 2
                               THEN SetTileType(x, y, Floor)
                               ELSE tiles
                   /\ gen' = [gen EXCEPT
                                !.i = @ + 1,
                                !.pc = IF gen.i + 1 < ExtraPaths
                                       THEN "paths" ELSE "goal"]
              ELSE UNCHANGED <<tiles, gen>>
    /\ rng' = Adv(Adv(rng))
    /\ UNCHANGED <<Width, Height, Grid, GoalX, GoalY>>
    /\ UNCHANGED gameVars

\* one draw of chooseGoalPosition's loop; when it is far enough from the
\* start, Generate makes that cell the Goal
ChooseGoalPosition ==
    /\ gen.pc = "goal"
    /\ \E kx \in Intn(rng, Width \div 4) :
         \E ky \in Intn(Adv(rng), Height \div 4) :
           LET goalX == Width - 2 - kx
               goalY == Height - 2 - ky
           IN IF Abs(goalX - 1) + Abs(goalY - 1) >= (Width + Height) \div 3
              THEN /\ tiles' = SetTileType(goalX, goalY, Goal)
                   /\ GoalX' = goalX
                   /\ GoalY' = goalY
                   /\ gen' = [gen EXCEPT !.pc = "ensure"]
              ELSE UNCHANGED <<tiles, GoalX, GoalY, gen>>
    /\ rng' = Adv(Adv(rng))
    /\ UNCHANGED <<Width, Height, Grid>>
    /\ UNCHANGED gameVars

\* ensurePathToGoal with the test of hasPath inverted
EnsurePathToGoalInverted ==
    /\ gen.pc = "ensure"
    /\ IF ~hasPath(1, 1, GoalX, GoalY)
       THEN gen' = [gen EXCEPT !.pc = "starts", !.hadPath = TRUE]
       ELSE gen' = [gen EXCEPT !.pc = "repair", !.hadPath = FALSE,
                               !.currentX = 1, !.currentY = 1]
    /\ UNCHANGED <<Width, Height, Grid, tiles, GoalX, GoalY, rng>>
    /\ UNCHANGED gameVars

\* ensurePathToGoal up to its loop: nothing to do when hasPath
EnsurePathToGoal ==
    /\ gen.pc = "ensure"
    /\ IF hasPath(1, 1, GoalX, GoalY)
       THEN gen' = [gen EXCEPT !.pc = "starts", !.hadPath = TRUE]
       ELSE gen' = [gen EXCEPT !.pc = "repair", !.hadPath = FALSE,
                               !.currentX = 1, !.currentY = 1]
    /\ UNCHANGED <<Width, Height, Grid, tiles, GoalX, GoalY, rng>>
    /\ UNCHANGED gameVars

\* the values the package-level rand.Intn(2) of ensurePathToGoal can return:
\* open when the package-level source is open; otherwise the source is
\* bound to one stream, read off the seeded state and the cursor
GlobalIntn2 ==
    IF rng = FreeRng \/ globalRng = FreeRng THEN 0 .. 1
    ELSE {(RngStep(rng + gen.currentX * 8 + gen.currentY) \div 7) % 2}

\* ensurePathToGoal's loop stopping as soon as either coordinate matches
CarvePathToGoalEarlyStop ==
    /\ gen.pc = "repair"
    /\ \E coin \in GlobalIntn2 :
         LET moveX == (coin = 0)
             cx == gen.currentX
             cy == gen.currentY
             nx == IF moveX /\ cx # GoalX
                   THEN (IF cx > GoalX THEN cx - 1 ELSE cx + 1) ELSE cx
             ny == IF ~(moveX /\ cx # GoalX) /\ cy # GoalY
                   THEN (IF cy > GoalY THEN cy - 1 ELSE cy + 1) ELSE cy
         IN /\ tiles' = SetTileType(nx, ny, Floor)
            /\ gen' = [gen EXCEPT
                         !.currentX = nx, !.currentY = ny,
                         !.pc = IF nx # GoalX /\ ny # GoalY
                                THEN "repair" ELSE "starts"]
    /\ UNCHANGED <<Width, Height, Grid, GoalX, GoalY, rng>>
    /\ UNCHANGED gameVars

\* one pass of ensurePathToGoal's loop; moveX comes from the package-level
\* rand.Intn(2)
CarvePathToGoal ==
    /\ gen.pc = "repair"
    /\ \E coin \in GlobalIntn2 :
         LET moveX == (coin = 0)
             cx == gen.currentX
             cy == gen.currentY
             nx == IF moveX /\ cx # GoalX
                   THEN (IF cx > GoalX THEN cx - 1 ELSE cx + 1) ELSE cx
             ny == IF ~(moveX /\ cx # GoalX) /\ cy # GoalY
                   THEN (IF cy > GoalY THEN cy - 1 ELSE cy + 1) ELSE cy
         IN /\ tiles' = SetTileType(nx, ny, Floor)
            /\ gen' = [gen EXCEPT
                         !.currentX = nx, !.currentY = ny,
                         !.pc = IF nx # GoalX \/ ny # GoalY
                                THEN "repair" ELSE "starts"]
    /\ UNCHANGED <<Width, Height, Grid, GoalX, GoalY, rng>>
    /\ UNCHANGED gameVars

\* setFlavorImages: every non-Wall tile gets the image of its ID's parity
setFlavorImages(t) ==
    [id \in DOMAIN t |->
        IF t[id].Type = Wall THEN t[id]
        ELSE [t[id] EXCEPT !.FlavorImage =
                 IF id % 2 = 0 THEN "assets/hallway/1.jpg"
                               ELSE "assets/hallway/2.jpg"]]

\* the rest of Generate: the three start cells are forced to Floor
ClearStarts ==
    /\ gen.pc = "starts"
    /\ LET t1 == SetTileType(1, 1, Floor)
           t2 == SetTileTypeIn(Grid, t1, Width, Height, 3, 3, Floor)
           t3 == SetTileTypeIn(Grid, t2, Width, Height, 5, 5, Floor)
       IN tiles' = setFlavorImages(t3)
    /\ gen' = [gen EXCEPT !.pc = "done"]
    /\ UNCHANGED <<Width, Height, Grid, GoalX, GoalY, rng>>
    /\ UNCHANGED gameVars

Generate ==
    \/ GenerateBegin
    \/ GeneratePathways
    \/ AddRandomPaths
    \/ ChooseGoalPosition
    \/ EnsurePathToGoal
    \/ CarvePathToGoal
    \/ ClearStarts

----------------------------------------------------------------------------
(* maze.State / maze.Maze: queries, highlight, row rotation *)

IsWallIn(g, t, w, h, x, y) ==
    ~InBounds(w, h, x, y) \/ t[g[y][x]].Type = Wall

IsGoalIn(g, t, w, h, x, y) ==
    InBounds(w, h, x, y) /\ t[g[y][x]].Type = Goal

\* the tile objects the grid points to
GridTiles(g, w, h) == {g[y][x] : x \in 0 .. w - 1, y \in 0 .. h - 1}

\* ClearHighlights: every tile object some cell points to is unmarked
ClearHighlights(g, t, w, h) ==
    LET held == GridTiles(g, w, h)
    IN [id \in DOMAIN t |->
           IF id \in held
           THEN [t[id] EXCEPT !.Highlighted = FALSE]
           ELSE t[id]]

\* HighlightXRotation: clear, then mark the objects in the interior cells
\* of row playerY other than column playerX
HighlightXRotation(g, t, w, h, playerX, playerY) ==
    LET t0 == ClearHighlights(g, t, w, h)
    IN IF playerY < 0 \/ playerY >= h THEN t0
       ELSE LET marked == {g[playerY][x] :
                             x \in {c \in 0 .. w - 1 :
                                      c # playerX /\ c > 0 /\ c < w - 1}}
            IN [id \in DOMAIN t0 |->
                   IF id \in marked
                   THEN [t0[id] EXCEPT !.Highlighted = TRUE]
                   ELSE t0[id]]

\* the destination wrapping over the whole row, border columns included
RotateNewXWholeRow(w, x, direction) ==
    LET newX == x + direction
    IN IF newX < 1 THEN w - 1
       ELSE IF newX > w - 2 THEN 0
       ELSE newX

\* the column a tile in column x is written to
RotateNewX(w, x, direction) ==
    LET newX == x + direction
    IN IF newX <= 0 THEN w - 2
       ELSE IF newX >= w - 1 THEN 1
       ELSE newX

\* the check looking for an entity at the Wall's source, not its destination
CheckXRotateCollisionsAtSource(g, t, w, h, playerX, playerY, direction, entityPositions) ==
    IF playerY < 0 \/ playerY >= h THEN FALSE
    ELSE \E x \in 1 .. w - 2 :
           /\ x # playerX
           /\ t[g[playerY][x]].Type = Wall
           /\ Pos(x, playerY) \in entityPositions

\* CheckXRotateCollisions: some Wall of row playerY, outside column
\* playerX, would be written to a position of entityPositions
CheckXRotateCollisions(g, t, w, h, playerX, playerY, direction, entityPositions) ==
    IF playerY < 0 \/ playerY >= h THEN FALSE
    ELSE \E x \in 1 .. w - 2 :
           /\ x # playerX
           /\ t[g[playerY][x]].Type = Wall
           /\ Pos(RotateNewX(w, x, direction), playerY) \in entityPositions

\* PerformXRotate's loop from column x on: row is Grid[playerY] so far,
\* tempRow the copy taken before the loop
RECURSIVE RotateLoop(_, _, _, _, _, _, _)
RotateLoop(row, t, tempRow, x, w, playerX, direction) ==
    IF x >= w - 1 THEN [row |-> row, tiles |-> t]
    ELSE IF x = playerX
         THEN RotateLoop(row, t, tempRow, x + 1, w, playerX, direction)
         ELSE LET newX == RotateNewX(w, x, direction)
              IN RotateLoop([row EXCEPT ![newX] = tempRow[x]],
                            [t EXCEPT ![tempRow[x]].X = newX],
                            tempRow, x + 1, w, playerX, direction)

\* PerformXRotate: the new Grid and heap
PerformXRotate(g, t, w, h, playerX, playerY, direction) ==
    IF playerY < 0 \/ playerY >= h THEN [Grid |-> g, tiles |-> t]
    ELSE LET r  == RotateLoop(g[playerY], t, g[playerY], 1, w,
                              playerX, direction)
             g2 == [g EXCEPT ![playerY] = r.row]
         IN [Grid |-> g2, tiles |-> ClearHighlights(g2, r.tiles, w, h)]

----------------------------------------------------------------------------
(* player.go, npc.go: smooth movement *)

MoveSpeed == 5

Copysign(mag, sign) == IF sign < 0 THEN -mag ELSE mag

PlayerNew(gridX, gridY, tileSize) ==
    [GridX |-> gridX, GridY |-> gridY,
     X |-> gridX * tileSize, Y |-> gridY * tileSize,
     DestX |-> gridX * tileSize, DestY |-> gridY * tileSize,
     Moving |-> FALSE]

SetDestination(p, gridX, gridY, tileSize) ==
    [p EXCEPT !.GridX = gridX, !.GridY = gridY,
              !.DestX = gridX * tileSize, !.DestY = gridY * tileSize,
              !.Moving = TRUE]

\* Player.Update snapping as soon as one more step would reach or pass
\* the destination
PlayerUpdateEarlySnap(p, moveSpeed) ==
    IF ~p.Moving THEN [e |-> p, arrived |-> FALSE]
    ELSE IF Abs(p.DestX - p.X) <= moveSpeed /\ Abs(p.DestY - p.Y) <= moveSpeed
         THEN [e |-> [p EXCEPT !.X = p.DestX, !.Y = p.DestY,
                               !.Moving = FALSE],
               arrived |-> TRUE]
         ELSE [e |-> [p EXCEPT
                        !.X = IF p.DestX # p.X
                              THEN @ + Copysign(moveSpeed, p.DestX - p.X)
                              ELSE @,
                        !.Y = IF p.DestY # p.Y
                              THEN @ + Copysign(moveSpeed, p.DestY - p.Y)
                              ELSE @],
               arrived |-> FALSE]

\* Player.Update: the player afterwards and whether it arrived
PlayerUpdate(p, moveSpeed) ==
    IF ~p.Moving THEN [e |-> p, arrived |-> FALSE]
    ELSE LET dx == p.DestX - p.X
             dy == p.DestY - p.Y
         IN IF Abs(dx) < moveSpeed /\ Abs(dy) < moveSpeed
            THEN [e |-> [p EXCEPT !.X = p.DestX, !.Y = p.DestY,
                                  !.Moving = FALSE],
                  arrived |-> TRUE]
            ELSE [e |-> [p EXCEPT
                           !.X = IF dx # 0
                                 THEN @ + Copysign(moveSpeed, dx) ELSE @,
                           !.Y = IF dy # 0
                                 THEN @ + Copysign(moveSpeed, dy) ELSE @],
                  arrived |-> FALSE]

NPCNew(id, gridX, gridY, size) ==
    [ID |-> id, GridX |-> gridX, GridY |-> gridY,
     X |-> gridX * size, Y |-> gridY * size,
     DestX |-> gridX * size, DestY |-> gridY * size,
     Moving |-> FALSE, Size |-> size, HasMoved |-> FALSE]

\* NPC.UpdatePosition: the NPC afterwards and whether it arrived
NPCUpdatePosition(n, moveSpeed) ==
    IF ~n.Moving THEN [e |-> n, arrived |-> FALSE]
    ELSE LET dx == n.DestX - n.X
             dy == n.DestY - n.Y
         IN IF Abs(dx) < moveSpeed /\ Abs(dy) < moveSpeed
            THEN [e |-> [n EXCEPT !.X = n.DestX, !.Y = n.DestY,
                                  !.Moving = FALSE],
                  arrived |-> TRUE]
            ELSE [e |-> [n EXCEPT
                           !.X = IF dx # 0
                                 THEN @ + Copysign(moveSpeed, dx) ELSE @,
                           !.Y = IF dy # 0
                                 THEN @ + Copysign(moveSpeed, dy) ELSE @],
                  arrived |-> FALSE]

\* TryMove's directions before the shuffle: left, right, up, down
Directions == << <<-1, 0>>, <<1, 0>>, <<0, -1>>, <<0, 1>> >>

\* orders rand.Shuffle can leave the four directions in: one per leading
\* direction.  TryMove takes the first valid direction of the order, and
\* the first valid direction of any permutation is the first valid one of
\* the rotation that starts where the permutation's valid directions start
ShuffleOrders ==
    {[k \in 1 .. 4 |-> ((k + r - 1) % 4) + 1] : r \in 0 .. 3}

\* TryMove's loop from the k-th shuffled direction on
RECURSIVE TryMoveLoop(_, _, _, _, _, _, _)
TryMoveLoop(n, g, t, w, h, order, k) ==
    IF k > 4 THEN [e |-> [n EXCEPT !.HasMoved = TRUE], moved |-> FALSE]
    ELSE LET dir      == Directions[order[k]]
             newGridX == n.GridX + dir[1]
             newGridY == n.GridY + dir[2]
         IN IF IsValidMoveIn(g, t, w, h, newGridX, newGridY)
            THEN [e |-> [n EXCEPT !.GridX = newGridX, !.GridY = newGridY,
                                  !.DestX = newGridX * n.Size,
                                  !.DestY = newGridY * n.Size,
                                  !.Moving = TRUE, !.HasMoved = TRUE],
                  moved |-> TRUE]
            ELSE TryMoveLoop(n, g, t, w, h, order, k + 1)

\* TryMove leaving the flag unset when no direction is valid
TryMoveNoForfeit(n, g, t, w, h, order) ==
    IF n.Moving \/ n.HasMoved THEN [e |-> n, moved |-> FALSE]
    ELSE IF TryMoveLoop(n, g, t, w, h, order, 1).moved
         THEN TryMoveLoop(n, g, t, w, h, order, 1)
         ELSE [e |-> n, moved |-> FALSE]

\* NPC.TryMove with validMoveFn = IsValidMove on maze (g,t) and the
\* shuffle leaving the directions in `order`
TryMove(n, g, t, w, h, order) ==
    IF n.Moving \/ n.HasMoved THEN [e |-> n, moved |-> FALSE]
    ELSE TryMoveLoop(n, g, t, w, h, order, 1)

\* AnyMoving reporting that no NPC is on its way
AnyMovingNever(npcs) == FALSE

AnyMoving(npcs) == \E i \in 1 .. Len(npcs) : npcs[i].Moving

AllMoved(npcs) == \A i \in 1 .. Len(npcs) : npcs[i].HasMoved

ResetMovedStatus(npcs) ==
    [i \in 1 .. Len(npcs) |-> [npcs[i] EXCEPT !.HasMoved = FALSE]]

\* ProcessTurn's loop from the i-th NPC on; orders[i] is the shuffle of
\* the i-th NPC's TryMove
RECURSIVE ProcessTurnLoop(_, _, _, _, _, _, _)
ProcessTurnLoop(npcs, g, t, w, h, orders, i) ==
    IF i > Len(npcs) THEN npcs
    ELSE IF ~npcs[i].HasMoved /\ ~npcs[i].Moving
         THEN LET r == TryMove(npcs[i], g, t, w, h, orders[i])
                  npcs2 == [npcs EXCEPT ![i] = r.e]
              IN IF r.moved THEN npcs2
                 ELSE ProcessTurnLoop(npcs2, g, t, w, h, orders, i + 1)
         ELSE ProcessTurnLoop(npcs, g, t, w, h, orders, i + 1)

\* npc.Manager.ProcessTurn
ProcessTurn(npcs, g, t, w, h, orders) ==
    IF AnyMoving(npcs) THEN npcs
    ELSE IF AllMoved(npcs) THEN npcs
    ELSE ProcessTurnLoop(npcs, g, t, w, h, orders, 1)

\* npc.Manager.UpdatePositions: the NPCs afterwards and the indices of
\* those that arrived, in order
UpdatePositions(npcs, moveSpeed) ==
    LET u == [i \in 1 .. Len(npcs) |-> NPCUpdatePosition(npcs[i], moveSpeed)]
    IN [npcs    |-> [i \in 1 .. Len(npcs) |-> u[i].e],
        arrived |-> SelectSeq([i \in 1 .. Len(npcs) |-> i],
                              LAMBDA i : u[i].arrived)]

----------------------------------------------------------------------------
(* action.go *)

XRotateLeft  == "XRotateLeft"
XRotateRight == "XRotateRight"

\* the catalog of NewManager
Actions ==
    << [Type |-> XRotateLeft,  Cooldown |-> RotateCooldown],
       [Type |-> XRotateRight, Cooldown |-> RotateCooldown] >>

NewCooldowns == [a \in {XRotateLeft, XRotateRight} |-> 0]

\* UpdateCooldowns clearing a running cooldown at once
UpdateCooldownsClearing(cd) ==
    [a \in DOMAIN cd |-> IF cd[a] > 0 THEN 0 ELSE cd[a]]

UpdateCooldowns(cd) ==
    [a \in DOMAIN cd |-> IF cd[a] > 0 THEN cd[a] - 1 ELSE cd[a]]

IsActionAvailable(cd, actionType) == cd[actionType] = 0

UseAction(cd, actionType) ==
    IF \E i \in 1 .. Len(Actions) : Actions[i].Type = actionType
    THEN LET i == CHOOSE j \in 1 .. Len(Actions) :
                     /\ Actions[j].Type = actionType
                     /\ \A k \in 1 .. j - 1 : Actions[k].Type # actionType
         IN [cd EXCEPT ![actionType] = Actions[i].Cooldown]
    ELSE cd

GetAvailableActions(cd) ==
    SelectSeq(Actions, LAMBDA a : IsActionAvailable(cd, a.Type))

NoAction == [Type |-> "nil", Cooldown |-> 0]

\* GetActionByNumber indexing the whole catalog
GetActionByNumberOfCatalog(cd, number) ==
    IF number < 1 \/ number > Len(Actions) THEN NoAction
    ELSE Actions[number]

\* GetActionByNumber: the action, or NoAction for nil
GetActionByNumber(cd, number) ==
    LET availableActions == GetAvailableActions(cd)
    IN IF number < 1 \/ number > Len(availableActions) THEN NoAction
       ELSE availableActions[number]

----------------------------------------------------------------------------
(* trivia: the manager and its questions *)

\* the Answer (0-based) of each question of LoadDefaultQuestions
Questions == <<2, 1, 2, 1, 1>>

\* the fields the game reads or resets; Correct, which CheckAnswer stores
\* for the renderer, is the value of AnswerIsCorrect
NewTriviaManager == [CurrentIndex |-> 0, Answered |-> FALSE]

\* SetRandomQuestion with the index randomFunc returned
SetRandomQuestion(tm, index) ==
    [tm EXCEPT !.CurrentIndex = index, !.Answered = FALSE]

\* what CheckAnswer returns
AnswerIsCorrect(tm, answerIndex) ==
    answerIndex = Questions[tm.CurrentIndex + 1]

\* CheckAnswer: the manager afterwards
CheckAnswer(tm, answerIndex) == [tm EXCEPT !.Answered = TRUE]

----------------------------------------------------------------------------
(* turn.go *)

WaitingForMove    == "WaitingForMove"
WaitingForTrivia  == "WaitingForTrivia"
WaitingForAction  == "WaitingForAction"
WaitingForEndTurn == "WaitingForEndTurn"
ProcessingNPCTurn == "ProcessingNPCTurn"
SelectingAction   == "SelectingAction"

PlayerTurn == "PlayerTurn"
NPCTurn    == "NPCTurn"

NewTurnManager == [CurrentState |-> WaitingForMove, CurrentOwner |-> PlayerTurn]

NextState(tm, newState) == [tm EXCEPT !.CurrentState = newState]

\* EndTurn handing the turn over without touching the phase
EndTurnKeepingPhase(tm) ==
    IF tm.CurrentOwner = PlayerTurn
    THEN [tm EXCEPT !.CurrentOwner = NPCTurn]
    ELSE [tm EXCEPT !.CurrentOwner = PlayerTurn]

EndTurn(tm) ==
    IF tm.CurrentOwner = PlayerTurn
    THEN [CurrentState |-> ProcessingNPCTurn, CurrentOwner |-> NPCTurn]
    ELSE [CurrentState |-> WaitingForMove, CurrentOwner |-> PlayerTurn]

IsPlayerTurn(tm) == tm.CurrentOwner = PlayerTurn

----------------------------------------------------------------------------
(* state.go: the coordinator.  m is the Manager: its own fields, the     *)
(* managers it owns and the maze; call, turnNo and rotations ride along. *)

Playing         == "Playing"
AnsweringTrivia == "AnsweringTrivia"
GameOver        == "GameOver"

NoCall ==
    [op |-> "none", playerX |-> 0, playerY |-> 0, direction |-> 0,
     entityPositions |-> {}, result |-> FALSE]

\* state.New without the maze
NewManager ==
    [CurrentState     |-> Playing,
     TurnManager      |-> NewTurnManager,
     Player           |-> PlayerNew(1, 1, TileSize),
     NPCs             |-> << NPCNew(0, 3, 3, TileSize),
                             NPCNew(1, 5, 5, TileSize) >>,
     Cooldowns        |-> NewCooldowns,
     Winner           |-> "",
     TriviaMgr        |-> NewTriviaManager,
     xRotateActive    |-> FALSE,
     xRotateDirection |-> 0]

Mgr ==
    [CurrentState     |-> CurrentState,
     TurnManager      |-> TurnManager,
     Player           |-> Player,
     NPCs             |-> NPCs,
     Cooldowns        |-> Cooldowns,
     Winner           |-> Winner,
     TriviaMgr        |-> TriviaMgr,
     xRotateActive    |-> xRotateActive,
     xRotateDirection |-> xRotateDirection,
     Grid             |-> Grid,
     tiles            |-> tiles,
     call             |-> call,
     turnNo           |-> turnNo,
     rotations        |-> rotations,
     turnRotations    |-> turnRotations,
     turnMoves        |-> turnMoves]

\* no entity has started a move: 0 is the player, k the k-th NPC
NoMoves == [k \in 0 .. 2 |-> 0]

\* the count of entity k raised by one
OneMoreMove(moves, k) == [moves EXCEPT ![k] = @ + 1]

\* what the input handler reports in one tick
NoInput ==
    [dx |-> 0, dy |-> 0, actionKey |-> FALSE, space |-> FALSE,
     confirmKey |-> FALSE, cancelKey |-> FALSE, digit |-> 0]

\* CheckPlayerMovement's results
MovementInputs == {<<0, 0>>, <<0, -1>>, <<0, 1>>, <<-1, 0>>, <<1, 0>>}

CheckTriviaInput(in) == IF in.digit >= 1 /\ in.digit <= 4 THEN in.digit ELSE 0

NPCName(id) == IF id = 0 THEN "NPC 1" ELSE "NPC 2"

MazeIsGoal(m, x, y) == IsGoalIn(m.Grid, m.tiles, Width, Height, x, y)

MazeIsValidMove(m, x, y) == IsValidMoveIn(m.Grid, m.tiles, Width, Height, x, y)

\* EndTurn without the ResetMovedStatus that follows it
EndTurnNoReset(m) ==
    [m EXCEPT !.TurnManager = EndTurn(@), !.turnNo = @ + 1,
              !.turnRotations = 0,
              !.turnMoves = NoMoves]

\* EndTurn and, when the turn passes to the NPCs, ResetMovedStatus
EndTurnAndReset(m) ==
    LET tm == EndTurn(m.TurnManager)
    IN [m EXCEPT !.TurnManager = tm,
                 !.NPCs = IF tm.CurrentOwner = NPCTurn
                          THEN ResetMovedStatus(@) ELSE @,
                 !.turnNo = @ + 1,
                 !.turnRotations = 0,
                 !.turnMoves = NoMoves]

collectEntityPositions(m) ==
    {Pos(m.Player.GridX, m.Player.GridY)}
        \cup {Pos(m.NPCs[i].GridX, m.NPCs[i].GridY) : i \in 1 .. Len(m.NPCs)}

\* updatePositions from the NPC update on: m is the manager so far, nu
\* the result of UpdatePositions
updatePositionsNPCs(m, nu) ==
    LET onGoal == SelectSeq(nu.arrived,
                            LAMBDA i : MazeIsGoal(m, nu.npcs[i].GridX,
                                                  nu.npcs[i].GridY))
    IN IF Len(onGoal) > 0
       THEN [m EXCEPT !.NPCs = nu.npcs,
                      !.Winner = NPCName(nu.npcs[onGoal[1]].ID),
                      !.CurrentState = GameOver]
       ELSE [m EXCEPT !.NPCs = nu.npcs]

\* what rand.Intn(len(Questions)) returns to SetRandomQuestion: in a game
\* the package-level source is bound to one stream, read off the seeded
\* state and the cell the player arrived on
QuestionDrawn(m) ==
    (RngStep(rng + m.Player.GridX * 8 + m.Player.GridY) \div 7)
        % Len(Questions)

\* updatePositions from the player's arrival test on: pu is the result
\* of Player.Update
\* (first a variant that enters the trivia phase but leaves the game
\* state at Playing)
updatePositionsPlayerStillPlaying(m, pu) ==
    IF pu.arrived /\ MazeIsGoal(m, m.Player.GridX, m.Player.GridY)
    THEN [m EXCEPT !.Player = pu.e,
                   !.Winner = "Player", !.CurrentState = GameOver]
    ELSE IF /\ pu.arrived
            /\ IsPlayerTurn(m.TurnManager)
            /\ m.TurnManager.CurrentState = WaitingForMove
         THEN updatePositionsNPCs(
                  [m EXCEPT !.Player = pu.e,
                            !.TurnManager = NextState(@, WaitingForTrivia),
                            !.TriviaMgr =
                                SetRandomQuestion(@, QuestionDrawn(m))],
                  UpdatePositions(m.NPCs, MoveSpeed))
         ELSE updatePositionsNPCs([m EXCEPT !.Player = pu.e],
                                  UpdatePositions(m.NPCs, MoveSpeed))

updatePositionsPlayer(m, pu) ==
    IF pu.arrived /\ MazeIsGoal(m, m.Player.GridX, m.Player.GridY)
    THEN [m EXCEPT !.Player = pu.e,
                   !.Winner = "Player", !.CurrentState = GameOver]
    ELSE IF /\ pu.arrived
            /\ IsPlayerTurn(m.TurnManager)
            /\ m.TurnManager.CurrentState = WaitingForMove
         THEN updatePositionsNPCs(
                  [m EXCEPT !.Player = pu.e,
                            !.CurrentState = AnsweringTrivia,
                            !.TurnManager = NextState(@, WaitingForTrivia),
                            !.TriviaMgr =
                                SetRandomQuestion(@, QuestionDrawn(m))],
                  UpdatePositions(m.NPCs, MoveSpeed))
         ELSE updatePositionsNPCs([m EXCEPT !.Player = pu.e],
                                  UpdatePositions(m.NPCs, MoveSpeed))

updatePositions(m) ==
    updatePositionsPlayer(m, PlayerUpdate(m.Player, MoveSpeed))

\* handlePlayerMovement without the IsValidMove test
handlePlayerMovementUnchecked(m, in) ==
    IF m.Player.Moving THEN m
    ELSE IF in.dx = 0 /\ in.dy = 0 THEN m
    ELSE [m EXCEPT !.Player =
             SetDestination(@, m.Player.GridX + in.dx,
                            m.Player.GridY + in.dy, TileSize),
                   !.turnMoves = OneMoreMove(@, 0)]

handlePlayerMovement(m, in) ==
    IF m.Player.Moving THEN m
    ELSE IF in.dx = 0 /\ in.dy = 0 THEN m
    ELSE LET newGridX == m.Player.GridX + in.dx
             newGridY == m.Player.GridY + in.dy
         IN IF MazeIsValidMove(m, newGridX, newGridY)
            THEN [m EXCEPT !.Player =
                     SetDestination(@, newGridX, newGridY, TileSize),
                           !.turnMoves = OneMoreMove(@, 0)]
            ELSE m

\* processNPCTurn that never hands the turn back
processNPCTurnNeverEnding(m, orders) ==
    IF AllMoved(m.NPCs)
    THEN m
    ELSE [m EXCEPT !.NPCs = ProcessTurn(@, m.Grid, m.tiles, Width, Height,
                                        orders)]

processNPCTurn(m, orders) ==
    IF AllMoved(m.NPCs)
    THEN [m EXCEPT !.TurnManager = EndTurn(@), !.turnNo = @ + 1,
                   !.turnRotations = 0,
                   !.turnMoves = NoMoves]
    ELSE LET npcs == ProcessTurn(m.NPCs, m.Grid, m.tiles, Width, Height,
                                 orders)
         IN [m EXCEPT !.NPCs = npcs,
                      !.turnMoves =
                          [k \in DOMAIN @ |->
                             IF /\ k \in 1 .. Len(npcs)
                                /\ npcs[k].Moving
                                /\ ~m.NPCs[k].Moving
                             THEN @[k] + 1 ELSE @[k]]]

\* the cancel branch of handleXRotateConfirmation, which also runs on
\* the tick of a committed rotation
\* (first a variant that leaves the prompt flag set)
handleXRotateCancelKeepingPrompt(m, in) ==
    IF in.cancelKey
    THEN [m EXCEPT !.tiles = ClearHighlights(m.Grid, @, Width, Height),
                   !.TurnManager = NextState(@, WaitingForAction)]
    ELSE m

handleXRotateCancel(m, in) ==
    IF in.cancelKey
    THEN [m EXCEPT !.tiles = ClearHighlights(m.Grid, @, Width, Height),
                   !.xRotateActive = FALSE,
                   !.TurnManager = NextState(@, WaitingForAction)]
    ELSE m

\* the commit of handleXRotateConfirmation: rotated is PerformXRotate's
\* result
handleXRotateCommit(m, thisCall, rotated) ==
    [m EXCEPT !.Grid = rotated.Grid,
              !.tiles = rotated.tiles,
              !.Cooldowns = IF m.xRotateDirection > 0
                            THEN UseAction(@, XRotateRight)
                            ELSE UseAction(@, XRotateLeft),
              !.xRotateActive = FALSE,
              !.TurnManager = NextState(@, WaitingForEndTurn),
              !.call = [thisCall EXCEPT !.op = "PerformXRotate"],
              !.rotations = @ + 1,
              !.turnRotations = @ + 1]

\* handleXRotateConfirmation performing the rotation whatever the check
\* reported
handleXRotateUnchecked(m, in, thisCall) ==
    IF in.confirmKey
    THEN handleXRotateCancel(
             handleXRotateCommit(
                 m, thisCall,
                 PerformXRotate(m.Grid, m.tiles, Width, Height,
                                m.Player.GridX, m.Player.GridY,
                                m.xRotateDirection)),
             in)
    ELSE handleXRotateCancel(m, in)

\* handleXRotateConfirmation once the collision check has been made
handleXRotateChecked(m, in, thisCall) ==
    IF in.confirmKey /\ thisCall.result
    THEN [m EXCEPT !.tiles = ClearHighlights(m.Grid, @, Width, Height),
                   !.xRotateActive = FALSE,
                   !.TurnManager = NextState(@, WaitingForAction),
                   !.call = thisCall]
    ELSE IF in.confirmKey
         THEN handleXRotateCancel(
                  handleXRotateCommit(
                      m, thisCall,
                      PerformXRotate(m.Grid, m.tiles, Width, Height,
                                     m.Player.GridX, m.Player.GridY,
                                     m.xRotateDirection)),
                  in)
         ELSE handleXRotateCancel(m, in)

handleXRotateConfirmation(m, in) ==
    handleXRotateChecked(
        m, in,
        [op |-> "CheckXRotateCollisions",
         playerX |-> m.Player.GridX, playerY |-> m.Player.GridY,
         direction |-> m.xRotateDirection,
         entityPositions |-> collectEntityPositions(m),
         result |-> CheckXRotateCollisions(
                        m.Grid, m.tiles, Width, Height,
                        m.Player.GridX, m.Player.GridY,
                        m.xRotateDirection, collectEntityPositions(m))])

handleActionSelection(m, selectedAction) ==
    CASE selectedAction.Type = XRotateLeft ->
           [m EXCEPT !.tiles = HighlightXRotation(m.Grid, @, Width, Height,
                                                  m.Player.GridX,
                                                  m.Player.GridY),
                     !.xRotateActive = TRUE,
                     !.xRotateDirection = -1]
      [] selectedAction.Type = XRotateRight ->
           [m EXCEPT !.tiles = HighlightXRotation(m.Grid, @, Width, Height,
                                                  m.Player.GridX,
                                                  m.Player.GridY),
                     !.xRotateActive = TRUE,
                     !.xRotateDirection = 1]
      [] OTHER ->
           [m EXCEPT !.TurnManager = NextState(@, WaitingForAction)]

\* updatePlaying after updatePositions: the handler of the phase
updatePlayingPhase(m1, in, orders) ==
    IF m1.xRotateActive THEN handleXRotateConfirmation(m1, in)
    ELSE CASE m1.TurnManager.CurrentState = WaitingForMove ->
                IF IsPlayerTurn(m1.TurnManager)
                THEN handlePlayerMovement(m1, in)
                ELSE processNPCTurn(m1, orders)
           [] m1.TurnManager.CurrentState = WaitingForAction ->
                IF in.actionKey
                THEN [m1 EXCEPT
                        !.TurnManager = NextState(@, SelectingAction)]
                ELSE IF in.space THEN EndTurnAndReset(m1)
                ELSE m1
           [] m1.TurnManager.CurrentState = SelectingAction ->
                IF in.cancelKey
                THEN [m1 EXCEPT
                        !.TurnManager = NextState(@, WaitingForAction)]
                ELSE IF in.digit > 0
                        /\ GetActionByNumber(m1.Cooldowns, in.digit) # NoAction
                     THEN handleActionSelection(
                              m1, GetActionByNumber(m1.Cooldowns, in.digit))
                     ELSE m1
           [] m1.TurnManager.CurrentState = WaitingForEndTurn ->
                IF in.space THEN EndTurnAndReset(m1) ELSE m1
           [] m1.TurnManager.CurrentState = ProcessingNPCTurn ->
                IF ~AnyMoving(m1.NPCs)
                THEN processNPCTurn(m1, orders)
                ELSE m1
           [] OTHER -> m1

updatePlaying(m, in, orders) ==
    updatePlayingPhase(updatePositions(m), in, orders)

\* updateTrivia returning to the game on a correct answer only
updateTriviaUntilCorrect(m, in) ==
    IF CheckTriviaInput(in) > 0
    THEN IF AnswerIsCorrect(m.TriviaMgr, CheckTriviaInput(in) - 1)
         THEN [m EXCEPT
                 !.TriviaMgr = CheckAnswer(@, CheckTriviaInput(in) - 1),
                 !.CurrentState = Playing,
                 !.TurnManager = NextState(@, WaitingForAction)]
         ELSE [m EXCEPT
                 !.TriviaMgr = CheckAnswer(@, CheckTriviaInput(in) - 1)]
    ELSE m

updateTrivia(m, in) ==
    IF CheckTriviaInput(in) > 0
    THEN [m EXCEPT !.TriviaMgr = CheckAnswer(@, CheckTriviaInput(in) - 1),
                   !.CurrentState = Playing,
                   !.TurnManager = NextState(@, WaitingForAction)]
    ELSE m

\* the end of Update ticking the cooldowns only while the game is played
UpdateEndWhilePlaying(m) ==
    IF m.CurrentState = Playing
    THEN [m EXCEPT !.Cooldowns = UpdateCooldowns(@)]
    ELSE m

\* the end of Update: the cooldowns tick whatever the game state
UpdateEnd(m) == [m EXCEPT !.Cooldowns = UpdateCooldowns(@)]

\* Update running the playing handlers whatever the game state
UpdateWhateverState(m, in, orders) ==
    UpdateEnd(CASE m.CurrentState = AnsweringTrivia -> updateTrivia(m, in)
                [] OTHER -> updatePlaying(m, in, orders))

\* Manager.Update on a tick that does not restart the game
Update(m, in, orders) ==
    UpdateEnd(CASE m.CurrentState = Playing -> updatePlaying(m, in, orders)
                [] m.CurrentState = AnsweringTrivia -> updateTrivia(m, in)
                [] OTHER -> m)

----------------------------------------------------------------------------
(* Ticks of the host loop.  Generation of a new maze is spread over the  *)
(* generator's steps; the coordinator ticks once the maze is built.      *)

\* the seeds explored: the first needs the repair of ensurePathToGoal, the
\* second leaves the goal next to an NPC's start
Seeds == {7 + 8 * k : k \in 0 .. NumSeeds - 1}

\* the digit keys explored (0: none pressed)
Digits == 0 .. MaxDigit

Built == gen.pc = "done"

\* the player gives input only while the bounds leave room
InputOpen == turnNo < MaxTurns

IdentityOrder == [k \in 1 .. 4 |-> k]

\* no neighbour of the i-th NPC is a valid move
Boxed(i) ==
    \A k \in 1 .. 4 :
        ~IsValidMove(NPCs[i].GridX + Directions[k][1],
                     NPCs[i].GridY + Directions[k][2])

\* no NPC is still on its way after this tick's position update
Settled ==
    \A i \in 1 .. Len(NPCs) :
        ~NPCs[i].Moving \/ NPCUpdatePosition(NPCs[i], MoveSpeed).arrived

\* the shuffles this tick can draw: rand.Shuffle runs for an NPC only if
\* no NPC is on its way, it has not moved and every NPC before it has
\* moved or cannot move
ShuffleDraws ==
    {o \in [1 .. Len(NPCs) -> ShuffleOrders] :
        \A i \in 1 .. Len(NPCs) :
            (\/ ~Settled
             \/ NPCs[i].HasMoved
             \/ \E j \in 1 .. i - 1 : ~NPCs[j].HasMoved /\ ~Boxed(j))
                => o[i] = IdentityOrder}

Apply(m) ==
    /\ CurrentState' = m.CurrentState
    /\ TurnManager' = m.TurnManager
    /\ Player' = m.Player
    /\ NPCs' = m.NPCs
    /\ Cooldowns' = m.Cooldowns
    /\ Winner' = m.Winner
    /\ TriviaMgr' = m.TriviaMgr
    /\ xRotateActive' = m.xRotateActive
    /\ xRotateDirection' = m.xRotateDirection
    /\ Grid' = m.Grid
    /\ tiles' = m.tiles
    /\ call' = m.call
    /\ turnNo' = m.turnNo
    /\ rotations' = m.rotations
    /\ turnRotations' = m.turnRotations
    /\ turnMoves' = m.turnMoves
    /\ UNCHANGED <<Width, Height, GoalX, GoalY, gen, rng, globalRng>>

\* one tick: Update on the manager with this tick's input and shuffles
TickWith(in, orders) ==
    /\ Apply(Update(Mgr, in, orders))
    /\ hist' = in

InPhase(phase) ==
    /\ Built
    /\ CurrentState = Playing
    /\ ~xRotateActive
    /\ TurnManager.CurrentState = phase

\* a tick in WaitingForMove on the player's turn
TickPlayerMove ==
    /\ InPhase(WaitingForMove)
    /\ IsPlayerTurn(TurnManager)
    /\ \E d \in (IF InputOpen THEN MovementInputs ELSE {<<0, 0>>}) :
         TickWith([NoInput EXCEPT !.dx = d[1], !.dy = d[2]],
                  [i \in 1 .. Len(NPCs) |-> IdentityOrder])
    /\ lastTick' = "PlayerMove"

\* a tick on the NPCs' turn
TickNPCTurn ==
    /\ \/ InPhase(ProcessingNPCTurn)
       \/ InPhase(WaitingForMove) /\ ~IsPlayerTurn(TurnManager)
    /\ \E orders \in ShuffleDraws :
         TickWith(NoInput, orders)
    /\ lastTick' = "NPCTurn"

\* a tick in WaitingForAction
TickWaitingForAction ==
    /\ InPhase(WaitingForAction)
    /\ \E a, sp \in (IF InputOpen THEN BOOLEAN ELSE {FALSE}) :
         TickWith([NoInput EXCEPT !.actionKey = a, !.space = sp],
                  [i \in 1 .. Len(NPCs) |-> IdentityOrder])
    /\ lastTick' = "WaitingForAction"

\* a tick in SelectingAction with no rotation pending
TickSelectingAction ==
    /\ InPhase(SelectingAction)
    /\ \E esc \in (IF InputOpen THEN BOOLEAN ELSE {FALSE}) :
         \E dg \in (IF InputOpen THEN Digits ELSE {0}) :
           TickWith([NoInput EXCEPT !.cancelKey = esc, !.digit = dg],
                    [i \in 1 .. Len(NPCs) |-> IdentityOrder])
    /\ lastTick' = "SelectingAction"

\* a tick with a rotation pending
TickXRotateConfirmation ==
    /\ Built
    /\ CurrentState = Playing
    /\ xRotateActive
    /\ \E ent \in (IF InputOpen /\ rotations < MaxRotations
                   THEN BOOLEAN ELSE {FALSE}) :
         \E esc \in (IF InputOpen THEN BOOLEAN ELSE {FALSE}) :
           TickWith([NoInput EXCEPT !.confirmKey = ent, !.cancelKey = esc],
                    [i \in 1 .. Len(NPCs) |-> IdentityOrder])
    /\ lastTick' = "XRotateConfirmation"

\* a tick in WaitingForEndTurn
TickWaitingForEndTurn ==
    /\ InPhase(WaitingForEndTurn)
    /\ \E sp \in (IF InputOpen THEN BOOLEAN ELSE {FALSE}) :
         TickWith([NoInput EXCEPT !.space = sp],
                  [i \in 1 .. Len(NPCs) |-> IdentityOrder])
    /\ lastTick' = "WaitingForEndTurn"

\* a tick of the trivia detour
TickTrivia ==
    /\ Built
    /\ \/ CurrentState = AnsweringTrivia
       \/ InPhase(WaitingForTrivia)
    /\ \E dg \in Digits :
         TickWith([NoInput EXCEPT !.digit = dg],
                  [i \in 1 .. Len(NPCs) |-> IdentityOrder])
    /\ lastTick' = "Trivia"

\* a tick in GameOver without the restart key; other keys may be down
TickGameOver ==
    /\ Built
    /\ CurrentState = GameOver
    /\ \E d \in (IF InputOpen THEN MovementInputs ELSE {<<0, 0>>}) :
         TickWith([NoInput EXCEPT !.dx = d[1], !.dy = d[2]],
                  [i \in 1 .. Len(NPCs) |-> IdentityOrder])
    /\ lastTick' = "GameOver"

\* Update honouring the restart key whatever the game state
RestartHonouredAnywhere(state, in) == in.space

\* Update's test for a restart: case GameOver, CheckRestartKey()
RestartHonoured(state, in) == state = GameOver /\ in.space

\* a tick in GameOver with the restart key: *m = *New(...), whose maze
\* the generator then builds; the new manager's cooldowns are all 0
TickRestart ==
    /\ Built
    /\ RestartHonoured(CurrentState, [NoInput EXCEPT !.space = TRUE])
    /\ \E seed \in Seeds : rng' = seed
    /\ gen' = GenLocals("init")
    /\ Grid' = NewStateGrid(Width, Height)
    /\ tiles' = NewStateTiles(Width, Height)
    /\ GoalX' = -1
    /\ GoalY' = -1
    /\ CurrentState' = NewManager.CurrentState
    /\ TurnManager' = NewManager.TurnManager
    /\ Player' = NewManager.Player
    /\ NPCs' = NewManager.NPCs
    /\ Cooldowns' = UpdateCooldowns(NewManager.Cooldowns)
    /\ Winner' = NewManager.Winner
    /\ TriviaMgr' = NewManager.TriviaMgr
    /\ xRotateActive' = NewManager.xRotateActive
    /\ xRotateDirection' = NewManager.xRotateDirection
    /\ call' = NoCall
    /\ turnNo' = 0
    /\ rotations' = 0
    /\ turnRotations' = 0
    /\ turnMoves' = NoMoves
    /\ lastTick' = "Restart"
    /\ hist' = [NoInput EXCEPT !.space = TRUE]
    /\ UNCHANGED <<Width, Height, globalRng>>

\* state.New: the manager under construction, maze.New about to generate
\* a maze of twice mazeWidth with a seed from rand.Int63()
Init ==
    /\ Width = mazeWidth * 2
    /\ Height = mazeWidth * 2
    /\ Grid = NewStateGrid(Width, Height)
    /\ tiles = NewStateTiles(Width, Height)
    /\ GoalX = -1
    /\ GoalY = -1
    /\ gen = GenLocals("init")
    /\ rng \in Seeds
    /\ globalRng = BoundRng
    /\ CurrentState = NewManager.CurrentState
    /\ TurnManager = NewManager.TurnManager
    /\ Player = NewManager.Player
    /\ NPCs = NewManager.NPCs
    /\ Cooldowns = NewManager.Cooldowns
    /\ Winner = NewManager.Winner
    /\ TriviaMgr = NewManager.TriviaMgr
    /\ xRotateActive = NewManager.xRotateActive
    /\ xRotateDirection = NewManager.xRotateDirection
    /\ call = NoCall
    /\ turnNo = 0
    /\ rotations = 0
    /\ turnRotations = 0
    /\ turnMoves = NoMoves
    /\ lastTick = "none"
    /\ hist = NoInput

Tick ==
    \/ TickPlayerMove
    \/ TickNPCTurn
    \/ TickWaitingForAction
    \/ TickSelectingAction
    \/ TickXRotateConfirmation
    \/ TickWaitingForEndTurn
    \/ TickTrivia
    \/ TickGameOver
    \/ TickRestart

Next == Generate \/ Tick

Spec == Init /\ [][Next]_vars

\* the input of the games checked for progress: the player gives input in
\* its first turn only, apart from restarting a finished game, and
\* confirms at most MaxLiveRotations rotations; ticks without input are
\* never held back
LiveInput ==
    /\ (hist' # NoInput /\ lastTick' # "Restart") => turnNo = 0
    /\ hist'.confirmKey => rotations < MaxLiveRotations

LiveNext == Generate \/ (Tick /\ LiveInput)

\* the host loop calls Update on every frame: a tick of the NPCs' turn
\* that can change the state is eventually taken
LiveSpec == Init /\ [][LiveNext]_vars /\ WF_vars(TickNPCTurn)

----------------------------------------------------------------------------
(* The generator alone, every draw open, all sizes up to MaxGenSize *)

GenInit ==
    /\ Width \in MinGenSize .. MaxGenSize
    /\ Height \in MinGenSize .. MaxGenSize
    /\ Grid = NewStateGrid(Width, Height)
    /\ tiles = NewStateTiles(Width, Height)
    /\ GoalX = -1
    /\ GoalY = -1
    /\ gen = GenLocals("init")
    /\ rng = FreeRng
    /\ globalRng = FreeRng
    /\ CurrentState = NewManager.CurrentState
    /\ TurnManager = NewManager.TurnManager
    /\ Player = NewManager.Player
    /\ NPCs = NewManager.NPCs
    /\ Cooldowns = NewManager.Cooldowns
    /\ Winner = NewManager.Winner
    /\ TriviaMgr = NewManager.TriviaMgr
    /\ xRotateActive = NewManager.xRotateActive
    /\ xRotateDirection = NewManager.xRotateDirection
    /\ call = NoCall
    /\ turnNo = 0
    /\ rotations = 0
    /\ turnRotations = 0
    /\ turnMoves = NoMoves
    /\ lastTick = "none"
    /\ hist = NoInput

GenNext == Generate

GenSpec == GenInit /\ [][GenNext]_vars

----------------------------------------------------------------------------
(* The maze surface called directly on a generated maze                    *)

\* the occupied cells handed to a direct check: cells of the rotated row
OccupiedInputs(playerY) ==
    {c \in SUBSET {Pos(x, playerY) : x \in 0 .. Width - 1} :
        Cardinality(c) <= MaxOccupied}

\* State.PerformXRotate called with any interior column, any row, on a
\* maze no check was made on; on a highlighted maze, with the column and
\* row of the highlight
CallPerformXRotate ==
    /\ Built
    /\ rotations < MaxDirectRotations
    /\ call.op \notin {"CheckXRotateCollisions", "ClearHighlights"}
    /\ \E playerX \in 1 .. Width - 2 :
         \E playerY \in 0 .. Height - 1 :
           \E direction \in {-1, 1} :
             LET rotated == PerformXRotate(Grid, tiles, Width, Height,
                                           playerX, playerY, direction)
             IN /\ call.op = "HighlightXRotation"
                   => playerX = call.playerX /\ playerY = call.playerY
                /\ Grid' = rotated.Grid
                /\ tiles' = rotated.tiles
                /\ call' = [op |-> "PerformXRotate",
                            playerX |-> playerX, playerY |-> playerY,
                            direction |-> direction,
                            entityPositions |-> {}, result |-> FALSE]
    /\ rotations' = rotations + 1
    /\ UNCHANGED <<turnRotations, turnMoves>>
    /\ UNCHANGED <<Width, Height, GoalX, GoalY, gen, rng, CurrentState,
                   TurnManager, Player, NPCs, Cooldowns, Winner, TriviaMgr,
                   xRotateActive, xRotateDirection, turnNo, lastTick,
                   hist, globalRng>>

\* Maze.CheckXRotateCollisions called once on the maze as generated
CallCheckXRotateCollisions ==
    /\ Built
    /\ call = NoCall
    /\ \E playerX \in 1 .. Width - 2 :
         \E playerY \in 0 .. Height - 1 :
           \E direction \in {-1, 1} :
             \E entityPositions \in OccupiedInputs(playerY) :
               call' = [op |-> "CheckXRotateCollisions",
                        playerX |-> playerX, playerY |-> playerY,
                        direction |-> direction,
                        entityPositions |-> entityPositions,
                        result |-> CheckXRotateCollisions(
                                       Grid, tiles, Width, Height, playerX,
                                       playerY, direction, entityPositions)]
    /\ UNCHANGED <<Width, Height, Grid, tiles, GoalX, GoalY, gen, rng,
                   CurrentState, TurnManager, Player, NPCs, Cooldowns,
                   Winner, TriviaMgr, xRotateActive, xRotateDirection, turnNo,
                   rotations, turnRotations, turnMoves, lastTick, hist, globalRng>>

\* State.HighlightXRotation called with any interior column and any row,
\* on the maze as generated or as a rotation left it
CallHighlightXRotation ==
    /\ Built
    /\ call.op \in {"none", "PerformXRotate"}
    /\ rotations <= MaxHighlightedRotations
    /\ \E playerX \in 1 .. Width - 2 :
         \E playerY \in 0 .. Height - 1 :
           /\ tiles' = HighlightXRotation(Grid, tiles, Width, Height,
                                          playerX, playerY)
           /\ call' = [NoCall EXCEPT !.op = "HighlightXRotation",
                                     !.playerX = playerX,
                                     !.playerY = playerY]
    /\ UNCHANGED <<Width, Height, Grid, GoalX, GoalY, gen, rng, CurrentState,
                   TurnManager, Player, NPCs, Cooldowns, Winner, TriviaMgr,
                   xRotateActive, xRotateDirection, turnNo, rotations, turnRotations, turnMoves,
                   lastTick, hist, globalRng>>

\* State.ClearHighlights called on a highlighted maze
CallClearHighlights ==
    /\ Built
    /\ call.op = "HighlightXRotation"
    /\ tiles' = ClearHighlights(Grid, tiles, Width, Height)
    /\ call' = [NoCall EXCEPT !.op = "ClearHighlights"]
    /\ UNCHANGED <<Width, Height, Grid, GoalX, GoalY, gen, rng, CurrentState,
                   TurnManager, Player, NPCs, Cooldowns, Winner, TriviaMgr,
                   xRotateActive, xRotateDirection, turnNo, rotations, turnRotations, turnMoves,
                   lastTick, hist, globalRng>>

MazeNext ==
    \/ Generate
    \/ CallPerformXRotate
    \/ CallCheckXRotateCollisions
    \/ CallHighlightXRotation
    \/ CallClearHighlights

MazeSpec == Init /\ [][MazeNext]_vars

----------------------------------------------------------------------------
(* turn.Manager and action.Manager called directly.  hist remembers the   *)
(* turn manager before each of the last two EndTurn calls made in a row   *)
(* and, for each action last used at cooldown 0, the UpdateCooldowns      *)
(* calls made since.                                                       *)

Phases ==
    {WaitingForMove, WaitingForTrivia, WaitingForAction, WaitingForEndTurn,
     ProcessingNPCTurn, SelectingAction}

ActionTypes == {Actions[i].Type : i \in 1 .. Len(Actions)}

\* the Cooldown of the catalog entry of an action type
CooldownOf(actionType) ==
    (CHOOSE a \in {Actions[i] : i \in 1 .. Len(Actions)} :
         a.Type = actionType).Cooldown

\* a run calls one of the two managers, which share no state
NoDirectCall ==
    [manager |-> "turn", op |-> "none", streak |-> 0,
     before2 |-> NewTurnManager, before1 |-> NewTurnManager,
     sinceUse |-> [t \in ActionTypes |-> -1]]

\* the variables state.New sets, before any tick
NewGame ==
    /\ CurrentState = NewManager.CurrentState
    /\ TurnManager = NewManager.TurnManager
    /\ Player = NewManager.Player
    /\ NPCs = NewManager.NPCs
    /\ Cooldowns = NewManager.Cooldowns
    /\ Winner = NewManager.Winner
    /\ TriviaMgr = NewManager.TriviaMgr
    /\ xRotateActive = NewManager.xRotateActive
    /\ xRotateDirection = NewManager.xRotateDirection
    /\ call = NoCall
    /\ turnNo = 0
    /\ rotations = 0
    /\ turnRotations = 0
    /\ turnMoves = NoMoves
    /\ lastTick = "none"

\* maze.NewState of the game's size, Generate not yet begun
NewMaze ==
    /\ Width = mazeWidth * 2
    /\ Height = mazeWidth * 2
    /\ Grid = NewStateGrid(Width, Height)
    /\ tiles = NewStateTiles(Width, Height)
    /\ GoalX = -1
    /\ GoalY = -1
    /\ gen = GenLocals("init")

ManagerInit ==
    /\ NewMaze
    /\ rng \in Seeds
    /\ globalRng = BoundRng
    /\ NewGame
    /\ hist \in {[NoDirectCall EXCEPT !.manager = m] :
                    m \in {"turn", "action"}}

\* turn.Manager.EndTurn, from any phase and owner
CallEndTurn ==
    /\ hist.manager = "turn"
    /\ TurnManager' = EndTurn(TurnManager)
    /\ hist' = [hist EXCEPT !.op = "EndTurn",
                            !.streak = IF hist.streak < 2
                                       THEN hist.streak + 1 ELSE 2,
                            !.before2 = hist.before1,
                            !.before1 = TurnManager]
    /\ UNCHANGED <<Width, Height, Grid, tiles, GoalX, GoalY, gen, rng,
                   globalRng, CurrentState, Player, NPCs, Cooldowns, Winner, TriviaMgr,
                   xRotateActive, xRotateDirection, call, turnNo, rotations, turnRotations, turnMoves,
                   lastTick>>

\* turn.Manager.NextState with any phase
CallNextState ==
    /\ hist.manager = "turn"
    /\ \E newState \in Phases :
         TurnManager' = NextState(TurnManager, newState)
    /\ hist' = [hist EXCEPT !.op = "NextState", !.streak = 0]
    /\ UNCHANGED <<Width, Height, Grid, tiles, GoalX, GoalY, gen, rng,
                   globalRng, CurrentState, Player, NPCs, Cooldowns, Winner, TriviaMgr,
                   xRotateActive, xRotateDirection, call, turnNo, rotations, turnRotations, turnMoves,
                   lastTick>>

\* action.Manager.UseAction with any action type of the catalog
CallUseAction ==
    /\ hist.manager = "action"
    /\ \E actionType \in ActionTypes :
         /\ Cooldowns' = UseAction(Cooldowns, actionType)
         /\ hist' = [hist EXCEPT
                       !.op = "UseAction",
                       !.sinceUse[actionType] =
                           IF Cooldowns[actionType] = 0 THEN 0 ELSE -1]
    /\ UNCHANGED <<Width, Height, Grid, tiles, GoalX, GoalY, gen, rng,
                   globalRng, CurrentState, TurnManager, Player, NPCs, Winner, TriviaMgr,
                   xRotateActive, xRotateDirection, call, turnNo, rotations, turnRotations, turnMoves,
                   lastTick>>

\* action.Manager.UpdateCooldowns
CallUpdateCooldowns ==
    /\ hist.manager = "action"
    /\ Cooldowns' = UpdateCooldowns(Cooldowns)
    /\ hist' = [hist EXCEPT
                  !.op = "UpdateCooldowns",
                  !.sinceUse =
                      [t \in ActionTypes |->
                          IF hist.sinceUse[t] >= 0
                             /\ hist.sinceUse[t] <= CooldownOf(t)
                          THEN hist.sinceUse[t] + 1 ELSE hist.sinceUse[t]]]
    /\ UNCHANGED <<Width, Height, Grid, tiles, GoalX, GoalY, gen, rng,
                   globalRng, CurrentState, TurnManager, Player, NPCs, Winner, TriviaMgr,
                   xRotateActive, xRotateDirection, call, turnNo, rotations, turnRotations, turnMoves,
                   lastTick>>

ManagerNext ==
    \/ CallEndTurn
    \/ CallNextState
    \/ CallUseAction
    \/ CallUpdateCooldowns

ManagerSpec == ManagerInit /\ [][ManagerNext]_vars

----------------------------------------------------------------------------
(* Generate called twice on one Generator (one seed), at the smallest     *)
(* size, with the package-level source open.  hist remembers the seed and *)
(* the maze the first call returned.                                      *)

\* the tile types of the grid, cell by cell
GridTypes ==
    [y \in 0 .. Height - 1 |-> [x \in 0 .. Width - 1 |-> TypeAt(x, y)]]

SeededInit ==
    /\ Width = MinGenSize
    /\ Height = MinGenSize
    /\ Grid = NewStateGrid(Width, Height)
    /\ tiles = NewStateTiles(Width, Height)
    /\ GoalX = -1
    /\ GoalY = -1
    /\ gen = GenLocals("init")
    /\ rng \in Seeds
    /\ globalRng = FreeRng
    /\ NewGame
    /\ hist = [RandomSeed |-> rng, runs |-> 1, Types |-> GridTypes,
               GoalX |-> GoalX, GoalY |-> GoalY]

\* the first call has returned; Generate is called again on the same
\* Generator: a new State, a new source from the same RandomSeed
GenerateAgain ==
    /\ Built
    /\ hist.runs = 1
    /\ hist' = [hist EXCEPT !.runs = 2, !.Types = GridTypes,
                            !.GoalX = GoalX, !.GoalY = GoalY]
    /\ Grid' = NewStateGrid(Width, Height)
    /\ tiles' = NewStateTiles(Width, Height)
    /\ GoalX' = -1
    /\ GoalY' = -1
    /\ gen' = GenLocals("init")
    /\ rng' = hist.RandomSeed
    /\ UNCHANGED <<Width, Height, globalRng, CurrentState, TurnManager,
                   Player, NPCs, Cooldowns, Winner, TriviaMgr, xRotateActive,
                   xRotateDirection, call, turnNo, rotations, turnRotations, turnMoves, lastTick>>

SeededNext == Generate \/ GenerateAgain

SeededSpec == SeededInit /\ [][SeededNext]_vars

----------------------------------------------------------------------------
(* npc.Manager called directly on a seeded maze, with two NPCs created at *)
(* any cells of a corner of the grid.  hist names the last call and the   *)
(* NPC it was made on.                                                     *)

\* the cells npc.New is called with
NPCCells == {<<x, y>> : x \in 0 .. MaxNPCCoord, y \in 0 .. MaxNPCCoord}

NPCInit ==
    /\ NewMaze
    /\ rng \in Seeds
    /\ globalRng = BoundRng
    /\ NewGame
    /\ hist = [op |-> "none", npc |-> 0]

\* a manager holding two NPCs made by npc.New at any two cells
CallNPCNew ==
    /\ Built
    /\ hist.op = "none"
    /\ \E c1, c2 \in NPCCells :
         NPCs' = << NPCNew(0, c1[1], c1[2], TileSize),
                    NPCNew(1, c2[1], c2[2], TileSize) >>
    /\ hist' = [op |-> "New", npc |-> 0]
    /\ UNCHANGED <<Width, Height, Grid, tiles, GoalX, GoalY, gen, rng,
                   globalRng, CurrentState, TurnManager, Player, Cooldowns,
                   Winner, TriviaMgr, xRotateActive, xRotateDirection, call, turnNo,
                   rotations, turnRotations, turnMoves, lastTick>>

\* NPC.TryMove on any NPC, with validMoveFn = the maze's IsValidMove
CallTryMove ==
    /\ Built
    /\ \E i \in 1 .. Len(NPCs) :
         \E order \in ShuffleOrders :
           /\ NPCs' = [NPCs EXCEPT ![i] = TryMove(@, Grid, tiles, Width,
                                                  Height, order).e]
           /\ hist' = [op |-> "TryMove", npc |-> i]
    /\ UNCHANGED <<Width, Height, Grid, tiles, GoalX, GoalY, gen, rng,
                   globalRng, CurrentState, TurnManager, Player, Cooldowns,
                   Winner, TriviaMgr, xRotateActive, xRotateDirection, call, turnNo,
                   rotations, turnRotations, turnMoves, lastTick>>

\* npc.Manager.ProcessTurn, with validMoveFn = the maze's IsValidMove
CallProcessTurn ==
    /\ Built
    /\ \E orders \in [1 .. Len(NPCs) -> ShuffleOrders] :
         NPCs' = ProcessTurn(NPCs, Grid, tiles, Width, Height, orders)
    /\ hist' = [op |-> "ProcessTurn", npc |-> 0]
    /\ UNCHANGED <<Width, Height, Grid, tiles, GoalX, GoalY, gen, rng,
                   globalRng, CurrentState, TurnManager, Player, Cooldowns,
                   Winner, TriviaMgr, xRotateActive, xRotateDirection, call, turnNo,
                   rotations, turnRotations, turnMoves, lastTick>>

\* npc.Manager.UpdatePositions
CallUpdatePositions ==
    /\ Built
    /\ NPCs' = UpdatePositions(NPCs, MoveSpeed).npcs
    /\ hist' = [op |-> "UpdatePositions", npc |-> 0]
    /\ UNCHANGED <<Width, Height, Grid, tiles, GoalX, GoalY, gen, rng,
                   globalRng, CurrentState, TurnManager, Player, Cooldowns,
                   Winner, TriviaMgr, xRotateActive, xRotateDirection, call, turnNo,
                   rotations, turnRotations, turnMoves, lastTick>>

NPCNext ==
    \/ Generate
    \/ CallNPCNew
    \/ CallTryMove
    \/ CallProcessTurn
    \/ CallUpdatePositions

NPCSpec == NPCInit /\ [][NPCNext]_vars

----------------------------------------------------------------------------
(* Player and NPC movement called directly on a seeded maze.  hist holds  *)
(* which entity the run moves, the moveSpeed every Update of the run is   *)
(* given, the result of the last Update, whether the last destination was *)
(* set along one axis, and how often a moving player was given a new      *)
(* destination.                                                            *)

MoveInit ==
    /\ NewMaze
    /\ rng \in Seeds
    /\ globalRng = BoundRng
    /\ NewGame
    /\ hist \in {[op |-> "none", entity |-> e, moveSpeed |-> s,
                  arrived |-> FALSE, oneAxis |-> TRUE, redirects |-> 0] :
                     e \in {"player", "npc"}, s \in 1 .. MaxStep}

\* Player.SetDestination with any cell of a corner of the grid, on an idle
\* or a moving player
CallSetDestination ==
    /\ Built
    /\ hist.entity = "player"
    /\ Player.Moving => hist.redirects < MaxRedirects
    /\ \E gridX, gridY \in 0 .. MaxDestCoord :
         /\ Player' = SetDestination(Player, gridX, gridY, TileSize)
         /\ hist' = [hist EXCEPT
                       !.op = "SetDestination",
                       !.arrived = FALSE,
                       !.oneAxis = (gridX * TileSize = Player.X
                                       \/ gridY * TileSize = Player.Y),
                       !.redirects = IF Player.Moving THEN @ + 1 ELSE @]
    /\ UNCHANGED <<Width, Height, Grid, tiles, GoalX, GoalY, gen, rng,
                   globalRng, CurrentState, TurnManager, NPCs, Cooldowns,
                   Winner, TriviaMgr, xRotateActive, xRotateDirection, call, turnNo,
                   rotations, turnRotations, turnMoves, lastTick>>

\* Player.Update with the run's moveSpeed
CallPlayerUpdate ==
    /\ Built
    /\ hist.entity = "player"
    /\ Player' = PlayerUpdate(Player, hist.moveSpeed).e
    /\ hist' = [hist EXCEPT
                  !.op = "Update",
                  !.arrived = PlayerUpdate(Player, hist.moveSpeed).arrived]
    /\ UNCHANGED <<Width, Height, Grid, tiles, GoalX, GoalY, gen, rng,
                   globalRng, CurrentState, TurnManager, NPCs, Cooldowns,
                   Winner, TriviaMgr, xRotateActive, xRotateDirection, call, turnNo,
                   rotations, turnRotations, turnMoves, lastTick>>

\* NPC.TryMove on the first NPC, which sets its destination
CallMoveNPC ==
    /\ Built
    /\ hist.entity = "npc"
    /\ \E order \in ShuffleOrders :
         NPCs' = [NPCs EXCEPT ![1] = TryMove(@, Grid, tiles, Width, Height,
                                             order).e]
    /\ hist' = [hist EXCEPT !.op = "TryMove", !.arrived = FALSE,
                            !.oneAxis = TRUE]
    /\ UNCHANGED <<Width, Height, Grid, tiles, GoalX, GoalY, gen, rng,
                   globalRng, CurrentState, TurnManager, Player, Cooldowns,
                   Winner, TriviaMgr, xRotateActive, xRotateDirection, call, turnNo,
                   rotations, turnRotations, turnMoves, lastTick>>

\* NPC.UpdatePosition on the first NPC with the run's moveSpeed
CallUpdatePosition ==
    /\ Built
    /\ hist.entity = "npc"
    /\ NPCs' = [NPCs EXCEPT
                  ![1] = NPCUpdatePosition(@, hist.moveSpeed).e]
    /\ hist' = [hist EXCEPT
                  !.op = "Update",
                  !.arrived = NPCUpdatePosition(NPCs[1],
                                                hist.moveSpeed).arrived]
    /\ UNCHANGED <<Width, Height, Grid, tiles, GoalX, GoalY, gen, rng,
                   globalRng, CurrentState, TurnManager, Player, Cooldowns,
                   Winner, TriviaMgr, xRotateActive, xRotateDirection, call, turnNo,
                   rotations, turnRotations, turnMoves, lastTick>>

MoveNext ==
    \/ Generate
    \/ CallSetDestination
    \/ CallPlayerUpdate
    \/ CallMoveNPC
    \/ CallUpdatePosition

MoveSpec == MoveInit /\ [][MoveNext]_vars

----------------------------------------------------------------------------
(* A game in which the player walks down to the row of the cached goal  *)
(* and then to the right, answers the trivia with the first option,      *)
(* opens the action menu only in that row, and after a rotation walks    *)
(* left or right; the NPCs move as they do in any game.                  *)

\* the keys this player may press on a tick, one at a time
WalkInputs ==
    {NoInput} \cup
    CASE CurrentState = AnsweringTrivia ->
           {[NoInput EXCEPT !.digit = 1]}
      [] CurrentState = Playing /\ xRotateActive ->
           {[NoInput EXCEPT !.confirmKey = TRUE]}
      [] CurrentState = Playing /\ TurnManager.CurrentState = WaitingForMove ->
           IF turnNo >= MaxWalkTurns THEN {}
           ELSE IF rotations > 0
           THEN {[NoInput EXCEPT !.dx = -1], [NoInput EXCEPT !.dx = 1]}
           ELSE IF Player.GridY < GoalY
           THEN {[NoInput EXCEPT !.dy = 1]}
           ELSE {[NoInput EXCEPT !.dx = 1]}
      [] CurrentState = Playing
            /\ TurnManager.CurrentState = WaitingForAction ->
           {[NoInput EXCEPT !.space = TRUE]}
               \cup IF Player.GridY = GoalY /\ rotations < MaxWalkRotations
                    THEN {[NoInput EXCEPT !.actionKey = TRUE]}
                    ELSE {}
      [] CurrentState = Playing
            /\ TurnManager.CurrentState = SelectingAction ->
           {[NoInput EXCEPT !.digit = d] : d \in 1 .. Len(Actions)}
      [] CurrentState = Playing
            /\ TurnManager.CurrentState = WaitingForEndTurn ->
           {[NoInput EXCEPT !.space = TRUE]}
      [] OTHER -> {}

\* one tick of Update with one of these inputs
WalkTick ==
    /\ Built
    /\ \E in \in WalkInputs :
         \E orders \in ShuffleDraws :
           TickWith(in, orders)
    /\ lastTick' = "Walk"

WalkNext == Generate \/ WalkTick

WalkSpec == Init /\ [][WalkNext]_vars

----------------------------------------------------------------------------
(* cmd/game/main.go: the Game of the stand-alone program.  g is the     *)
(* Game; its goroutines are counted by the statement they have reached. *)
(* The variables hold: CurrentState the gameState, TurnManager the      *)
(* turnState and currentTurn, Grid the isWall flags, turnNo the rounds  *)
(* of NPC moves, hist the goroutines and what the last step did.        *)

\* Update's moveSpeed
GameMoveSpeed == 5

\* the cells createMazeGrid makes walls, from cell k on, row by row, with
\* the package-level source in state s: rand.Intn is called for every
\* cell off the border
RECURSIVE createMazeWalls(_, _, _, _)
createMazeWalls(k, s, w, walls) ==
    IF k = w * w THEN walls
    ELSE LET x == k % w
             y == k \div w
         IN IF x = 0 \/ y = 0 \/ x = w - 1 \/ y = w - 1
            THEN createMazeWalls(k + 1, s, w, walls \cup {<<x, y>>})
            ELSE createMazeWalls(k + 1, RngStep(s), w,
                                 IF RngStep(s) % 100 < 20 /\ x > 1 /\ y > 1
                                 THEN walls \cup {<<x, y>>}
                                 ELSE walls)

\* createMazeGrid: the isWall flag of every cell, the three starting
\* cells cleared
createMazeGrid(w, s) ==
    LET walls == createMazeWalls(0, s, w, {})
                     \ {<<1, 1>>, <<3, 3>>, <<5, 5>>}
    IN [y \in 0 .. w - 1 |-> [x \in 0 .. w - 1 |-> <<x, y>> \in walls]]

GameEntity(gridX, gridY) ==
    [X |-> gridX * TileSize, Y |-> gridY * TileSize,
     GridX |-> gridX, GridY |-> gridY,
     DestX |-> gridX * TileSize, DestY |-> gridY * TileSize,
     Moving |-> FALSE]

NoGoroutines == [started |-> 0, halfway |-> 0]

\* NewGame, with the maze drawn from source state s
GameNewGame(s) ==
    [gameState   |-> Playing,
     turnState   |-> WaitingForMove,
     currentTurn |-> PlayerTurn,
     player      |-> GameEntity(1, 1),
     npcs        |-> <<GameEntity(3, 3), GameEntity(5, 5)>>,
     grid        |-> createMazeGrid(gameMazeWidth, s),
     triviaMgr   |-> NewTriviaManager,
     goroutines  |-> NoGoroutines,
     answered    |-> FALSE,
     rounds      |-> 0]

\* the validity test of handlePlayerMovement and processNPCTurn
GameValidCell(g, x, y) ==
    /\ x >= 0 /\ x < gameMazeWidth
    /\ y >= 0 /\ y < gameMazeWidth
    /\ ~g.grid[y][x]

\* updatePositions
GameUpdatePositions(g) ==
    LET pu == PlayerUpdate(g.player, GameMoveSpeed)
        g1 == IF /\ pu.arrived
                 /\ g.currentTurn = PlayerTurn
                 /\ g.turnState = WaitingForMove
              THEN [g EXCEPT !.player = pu.e,
                             !.gameState = AnsweringTrivia,
                             !.turnState = WaitingForTrivia,
                             !.triviaMgr =
                                 SetRandomQuestion(
                                     @, (RngStep(pu.e.GridX * 8 + pu.e.GridY)
                                            \div 7) % Len(Questions))]
              ELSE [g EXCEPT !.player = pu.e]
    IN [g1 EXCEPT !.npcs = [i \in 1 .. Len(@) |->
                              PlayerUpdate(@[i], GameMoveSpeed).e]]

\* handlePlayerMovement
GameHandlePlayerMovement(g, in) ==
    IF g.player.Moving THEN g
    ELSE IF in.dx = 0 /\ in.dy = 0 THEN g
    ELSE IF GameValidCell(g, g.player.GridX + in.dx, g.player.GridY + in.dy)
    THEN [g EXCEPT !.player = SetDestination(@, @.GridX + in.dx,
                                             @.GridY + in.dy, TileSize)]
    ELSE g

anyNPCMoving(g) == \E i \in 1 .. Len(g.npcs) : g.npcs[i].Moving

\* the first direction of the shuffled list that leads to a valid cell,
\* 0 if there is none
GameFirstValid(g, n, order) ==
    LET ok == {k \in 1 .. 4 :
                 GameValidCell(g, n.GridX + Directions[order[k]][1],
                               n.GridY + Directions[order[k]][2])}
    IN IF ok = {} THEN 0
       ELSE order[CHOOSE k \in ok : \A j \in ok : k <= j]

\* processNPCTurn: every idle NPC moves, and the turn returns to the
\* player only if no NPC is moving afterwards
GameProcessNPCTurn(g, orders) ==
    IF anyNPCMoving(g) THEN g
    ELSE LET npcs == [i \in 1 .. Len(g.npcs) |->
                        LET d == GameFirstValid(g, g.npcs[i], orders[i])
                        IN IF d = 0 THEN g.npcs[i]
                           ELSE SetDestination(
                                    g.npcs[i],
                                    g.npcs[i].GridX + Directions[d][1],
                                    g.npcs[i].GridY + Directions[d][2],
                                    TileSize)]
             g1 == [g EXCEPT !.npcs = npcs, !.rounds = @ + 1]
         IN IF ~anyNPCMoving(g1)
            THEN [g1 EXCEPT !.currentTurn = PlayerTurn,
                            !.turnState = WaitingForMove]
            ELSE g1

\* updatePlaying
GameUpdatePlaying(g, in, orders) ==
    LET g1 == GameUpdatePositions(g)
    IN CASE g1.turnState = WaitingForMove ->
              IF g1.currentTurn = PlayerTurn
              THEN GameHandlePlayerMovement(g1, in)
              ELSE GameProcessNPCTurn(g1, orders)
         [] g1.turnState = WaitingForAction ->
              IF in.actionKey \/ in.tab
              THEN [g1 EXCEPT !.turnState = WaitingForEndTurn]
              ELSE g1
         [] g1.turnState = WaitingForEndTurn ->
              IF in.space
              THEN IF g1.currentTurn = PlayerTurn
                   THEN [g1 EXCEPT !.currentTurn = NPCTurn,
                                   !.turnState = ProcessingNPCTurn]
                   ELSE [g1 EXCEPT !.currentTurn = PlayerTurn,
                                   !.turnState = WaitingForMove]
              ELSE g1
         [] g1.turnState = ProcessingNPCTurn ->
              IF ~anyNPCMoving(g1)
              THEN GameProcessNPCTurn(g1, orders)
              ELSE g1
         [] OTHER -> g1

\* the first statement of the goroutine updateTrivia starts
GoSetGameState(g) ==
    [g EXCEPT !.gameState = Playing,
              !.goroutines = [started |-> @.started - 1,
                              halfway |-> @.halfway + 1]]

\* its second statement
GoSetTurnState(g) ==
    [g EXCEPT !.turnState = WaitingForAction,
              !.goroutines = [@ EXCEPT !.halfway = @ - 1]]

\* updateTrivia: an answer key records the answer and starts a goroutine
GameUpdateTrivia(g, in) ==
    IF in.digit >= 1 /\ in.digit <= 4
    THEN [g EXCEPT !.triviaMgr = CheckAnswer(@, in.digit - 1),
                   !.goroutines = [@ EXCEPT !.started = @ + 1],
                   !.answered = TRUE]
    ELSE g

\* Update
GameUpdate(g, in, orders) ==
    LET g0 == [g EXCEPT !.answered = FALSE]
    IN CASE g0.gameState = Playing -> GameUpdatePlaying(g0, in, orders)
         [] g0.gameState = AnsweringTrivia -> GameUpdateTrivia(g0, in)
         [] OTHER -> IF in.space THEN GameNewGame(globalRng) ELSE g0

\* the Game held by the variables
TheGame ==
    [gameState   |-> CurrentState,
     turnState   |-> TurnManager.CurrentState,
     currentTurn |-> TurnManager.CurrentOwner,
     player      |-> Player,
     npcs        |-> NPCs,
     grid        |-> Grid,
     triviaMgr   |-> TriviaMgr,
     goroutines  |-> hist.goroutines,
     answered    |-> hist.answered,
     rounds      |-> turnNo]

GameHolds(g) ==
    /\ CurrentState' = g.gameState
    /\ TurnManager' = [CurrentState |-> g.turnState,
                       CurrentOwner |-> g.currentTurn]
    /\ Player' = g.player
    /\ NPCs' = g.npcs
    /\ Grid' = g.grid
    /\ TriviaMgr' = g.triviaMgr
    /\ hist' = [goroutines |-> g.goroutines, answered |-> g.answered]
    /\ turnNo' = g.rounds
    /\ UNCHANGED <<Width, Height, tiles, GoalX, GoalY, gen, rng, globalRng,
                   Cooldowns, Winner, xRotateActive, xRotateDirection, call,
                   rotations, turnRotations, turnMoves>>

GameInit ==
    /\ globalRng \in Seeds
    /\ Width = gameMazeWidth
    /\ Height = gameMazeWidth
    /\ CurrentState = GameNewGame(globalRng).gameState
    /\ TurnManager = [CurrentState |-> GameNewGame(globalRng).turnState,
                      CurrentOwner |-> GameNewGame(globalRng).currentTurn]
    /\ Player = GameNewGame(globalRng).player
    /\ NPCs = GameNewGame(globalRng).npcs
    /\ Grid = GameNewGame(globalRng).grid
    /\ TriviaMgr = GameNewGame(globalRng).triviaMgr
    /\ hist = [goroutines |-> NoGoroutines, answered |-> FALSE]
    /\ turnNo = 0
    /\ tiles = <<>>
    /\ GoalX = -1
    /\ GoalY = -1
    /\ gen = GenLocals("init")
    /\ rng = BoundRng
    /\ Cooldowns = NewManager.Cooldowns
    /\ Winner = ""
    /\ xRotateActive = FALSE
    /\ xRotateDirection = 0
    /\ call = NoCall
    /\ rotations = 0
    /\ turnRotations = 0
    /\ turnMoves = NoMoves
    /\ lastTick = "none"

\* the keys of one tick, one key at a time; an answer key only while the
\* bound on goroutines leaves room
GameInputs ==
    LET none == [dx |-> 0, dy |-> 0, actionKey |-> FALSE, tab |-> FALSE,
                 space |-> FALSE, digit |-> 0]
    IN {none}
         \cup {[none EXCEPT !.dx = d[1], !.dy = d[2]] : d \in MovementInputs}
         \cup {[none EXCEPT !.actionKey = TRUE], [none EXCEPT !.tab = TRUE],
               [none EXCEPT !.space = TRUE]}
         \cup IF hist.goroutines.started + hist.goroutines.halfway
                     < MaxGoroutines
              THEN {[none EXCEPT !.digit = d] : d \in 1 .. 4}
              ELSE {}

\* the shuffles of one tick: drawn only when processNPCTurn moves the NPCs
GameShuffles ==
    IF /\ CurrentState = Playing
       /\ TurnManager.CurrentState = ProcessingNPCTurn
       /\ \A i \in 1 .. Len(NPCs) : PlayerUpdate(NPCs[i], GameMoveSpeed).arrived
                                      \/ ~NPCs[i].Moving
    THEN [1 .. 2 -> ShuffleOrders]
    ELSE {[i \in 1 .. 2 |-> IdentityOrder]}

\* the goroutine started in a tick may run any number of its statements
\* before Update returns
GoroutineRan(g, ran) ==
    IF ~g.answered \/ ran = 0 THEN g
    ELSE IF ran = 1 THEN GoSetGameState(g)
    ELSE GoSetTurnState(GoSetGameState(g))

\* one call of Update by the game loop
CallGameUpdate ==
    /\ turnNo < MaxGameRounds \/ TurnManager.CurrentState # ProcessingNPCTurn
    /\ \E in \in GameInputs :
         \E orders \in GameShuffles :
           \E ran \in 0 .. 2 :
             GameHolds(GoroutineRan(GameUpdate(TheGame, in, orders), ran))
    /\ lastTick' = "Update"

\* a goroutine runs its first statement between two ticks
GoroutineSetsGameState ==
    /\ hist.goroutines.started > 0
    /\ GameHolds([GoSetGameState(TheGame) EXCEPT !.answered = FALSE])
    /\ lastTick' = "goroutine"

\* a goroutine runs its second statement between two ticks
GoroutineSetsTurnState ==
    /\ hist.goroutines.halfway > 0
    /\ GameHolds([GoSetTurnState(TheGame) EXCEPT !.answered = FALSE])
    /\ lastTick' = "goroutine"

GameNext ==
    \/ CallGameUpdate
    \/ GoroutineSetsGameState
    \/ GoroutineSetsTurnState

GameSpec == GameInit /\ [][GameNext]_vars

----------------------------------------------------------------------------
(* Properties *)

\* a step that is one PerformXRotate call
RotateStep == call'.op = "PerformXRotate" /\ rotations' = rotations + 1

BorderCells ==
    {c \in (0 .. Width - 1) \X (0 .. Height - 1) :
        c[1] \in {0, Width - 1} \/ c[2] \in {0, Height - 1}}

\* C1: every maze Generate returns has the goal cell (GoalX, GoalY)
\* reachable from (1,1) over orthogonally adjacent non-Wall tiles
GoalReachableAfterGenerate ==
    gen.pc = "done" => hasPath(1, 1, GoalX, GoalY)

\* a maze returned after the repair of ensurePathToGoal had to run
RepairedMazeReturned == gen.pc = "done" /\ ~gen.hadPath

\* the tile ids of row y with their multiplicities
RowBag(g, y) ==
    [id \in {g[y][x] : x \in 0 .. Width - 1} |->
        Cardinality({x \in 0 .. Width - 1 : g[y][x] = id})]

\* C2: PerformXRotate leaves the multiset of tile ids of the rotated row
\* as it was: no tile is destroyed, none appears in two cells
RotationIsPermutation ==
    [][RotateStep =>
         RowBag(Grid', call'.playerY) = RowBag(Grid, call'.playerY)]_vars

\* C3: in every game state the cell of the player and of every NPC holds
\* a non-Wall tile, also after a rotation committed on a check of false
NoEntityOnWall ==
    Built =>
      /\ TypeAt(Player.GridX, Player.GridY) # Wall
      /\ \A i \in 1 .. Len(NPCs) : TypeAt(NPCs[i].GridX, NPCs[i].GridY) # Wall

\* a rotation was committed after the check returned false
RotationCommitted ==
    /\ Built
    /\ lastTick = "XRotateConfirmation"
    /\ call.op = "PerformXRotate"
    /\ ~call.result
    /\ rotations > 0

\* the destination the specified rotation gives column x: one column in
\* `direction`, wrapping within [1, w-2] and stepping over the player's
WrapInterior(w, x) == IF x <= 0 THEN w - 2 ELSE IF x >= w - 1 THEN 1 ELSE x

SpecifiedNewX(w, playerX, x, direction) ==
    LET n1 == WrapInterior(w, x + direction)
    IN IF n1 = playerX THEN WrapInterior(w, n1 + direction) ELSE n1

\* the specified rotation would place a Wall on one of the occupied cells
SpecifiedCollision(playerX, playerY, direction, occupiedCells) ==
    \E x \in 1 .. Width - 2 :
        /\ x # playerX
        /\ TypeAt(x, playerY) = Wall
        /\ Pos(SpecifiedNewX(Width, playerX, x, direction), playerY)
              \in occupiedCells

\* C4: CheckXRotateCollisions returns true exactly if the rotation as
\* specified (the player's column neither source nor destination) would
\* place a Wall on an occupied cell
CheckAgreesWithSpecifiedRotation ==
    call.op = "CheckXRotateCollisions" =>
        call.result = SpecifiedCollision(call.playerX, call.playerY,
                                         call.direction, call.entityPositions)

GoalCells ==
    {c \in (0 .. Width - 1) \X (0 .. Height - 1) : TypeAt(c[1], c[2]) = Goal}

\* C5: every maze Generate returns has exactly one Goal-typed cell, the
\* cell (GoalX, GoalY)
ExactlyOneGoalAtGoalXY ==
    gen.pc = "done" => GoalCells = {Pos(GoalX, GoalY)}

\* C6: PerformXRotate leaves the cell (playerX, playerY) holding the tile
\* it held before the call
PlayerColumnUntouched ==
    [][RotateStep =>
         Grid'[call'.playerY][call'.playerX]
            = Grid[call'.playerY][call'.playerX]]_vars

\* C7: every maze Generate returns has a Wall in every border cell
BorderIsWallAfterGenerate ==
    gen.pc = "done" => \A c \in BorderCells : TypeAt(c[1], c[2]) = Wall

PathStartToGoal ==
    TypeAt(1, 1) # Wall /\ hasPath(1, 1, GoalX, GoalY)

FrozenAfterGameOver ==
    [][CurrentState = GameOver /\ lastTick' # "Restart" =>
         UNCHANGED <<CurrentState, Winner, TriviaMgr, TurnManager, Player, NPCs,
                     Grid, tiles>>]_vars

\* a tick has run with the winner recorded
TickedInGameOver ==
    CurrentState = GameOver /\ Winner # "" /\ lastTick = "GameOver"

\* C11: EndTurn applied twice in a row to a turn manager whose owner is
\* the player, whatever its phase, leaves owner = PlayerTurn and phase =
\* WaitingForMove, and between the two calls the manager is at owner =
\* NPCTurn, phase = ProcessingNPCTurn
EndTurnTwiceFromPlayer ==
    (hist.op = "EndTurn" /\ hist.streak = 2
        /\ hist.before2.CurrentOwner = PlayerTurn)
    => /\ TurnManager = [CurrentState |-> WaitingForMove,
                         CurrentOwner |-> PlayerTurn]
       /\ hist.before1 = [CurrentState |-> ProcessingNPCTurn,
                          CurrentOwner |-> NPCTurn]

\* two EndTurn calls in a row were made on a player-owned manager that was
\* not in WaitingForMove
EndTurnTwiceApplied ==
    /\ hist.op = "EndTurn"
    /\ hist.streak = 2
    /\ hist.before2.CurrentOwner = PlayerTurn
    /\ hist.before2.CurrentState = SelectingAction

\* C17: after UseAction(t) at cooldown 0 the cooldown of t is its full
\* duration D, and t is in GetAvailableActions again after exactly D
\* UpdateCooldowns calls, not after fewer
CooldownLastsExactlyD ==
    \A t \in ActionTypes :
        hist.sinceUse[t] >= 0
        => /\ hist.sinceUse[t] = 0 => Cooldowns[t] = CooldownOf(t)
           /\ (\E i \in 1 .. Len(GetAvailableActions(Cooldowns)) :
                   GetAvailableActions(Cooldowns)[i].Type = t)
              <=> hist.sinceUse[t] >= CooldownOf(t)

\* an action used at cooldown 0 has come back after D UpdateCooldowns calls
ActionBackAfterD ==
    \E t \in ActionTypes :
        /\ hist.sinceUse[t] = CooldownOf(t)
        /\ CooldownOf(t) > 0
        /\ \E i \in 1 .. Len(GetAvailableActions(Cooldowns)) :
               GetAvailableActions(Cooldowns)[i].Type = t

\* the turn passes from the player to the NPCs on this step
HandoverToNPCs ==
    /\ TurnManager.CurrentOwner = PlayerTurn
    /\ TurnManager'.CurrentOwner = NPCTurn

\* C12: within one game every NPC's moved flag is false right after a
\* step that passes the turn from the player to the NPCs, no flag goes
\* from true to false on any other step (so through an NPC turn a flag can
\* only go from false to true), and the step that passes the turn back to
\* the player leaves every flag as it is
MovedFlagsResetOnlyAtHandover ==
    [][lastTick' # "Restart"
       => /\ HandoverToNPCs
             => \A i \in 1 .. Len(NPCs') : ~NPCs'[i].HasMoved
          /\ (\E i \in 1 .. Len(NPCs) :
                  NPCs[i].HasMoved /\ ~NPCs'[i].HasMoved)
             => HandoverToNPCs
          /\ (TurnManager.CurrentOwner = NPCTurn
                  /\ TurnManager'.CurrentOwner = PlayerTurn)
             => \A i \in 1 .. Len(NPCs) :
                    NPCs'[i].HasMoved = NPCs[i].HasMoved]_vars

\* the player has just ended a second turn: the flags the NPCs set in
\* their first turn are false again
SecondHandoverReset ==
    /\ turnNo = 3
    /\ TurnManager.CurrentOwner = NPCTurn
    /\ lastTick \in {"WaitingForAction", "WaitingForEndTurn"}
    /\ \A i \in 1 .. Len(NPCs) : ~NPCs[i].HasMoved

\* the rotation pending in this state would put a wall on an entity
PendingCollision ==
    CheckXRotateCollisions(Grid, tiles, Width, Height, Player.GridX,
                           Player.GridY, xRotateDirection,
                           collectEntityPositions(Mgr))

\* the action a pending rotation uses
PendingAction == IF xRotateDirection > 0 THEN XRotateRight ELSE XRotateLeft

\* this step leaves every cell holding the tile it held, of the same type
MazeKept ==
    /\ Grid' = Grid
    /\ \A id \in DOMAIN tiles : tiles'[id].Type = tiles[id].Type

\* after this step no tile of the grid is highlighted
NoHighlightLeft ==
    \A y \in 0 .. Height - 1 : \A x \in 0 .. Width - 1 :
        ~tiles'[Grid'[y][x]].Highlighted

\* this step starts no cooldown
NoCooldownConsumed ==
    \A a \in DOMAIN Cooldowns : Cooldowns'[a] <= Cooldowns[a]

\* C14: a tick that delivers a confirmation to a pending rotation without
\* collision ends with the rotation performed, the used action's cooldown
\* at its full duration (or one less, Update's own UpdateCooldowns having
\* run at the end of the tick), the pending flag cleared and the phase
\* WaitingForEndTurn, whatever other input the tick delivers
ConfirmedRotationEndsAction ==
    [][(lastTick' = "XRotateConfirmation" /\ hist'.confirmKey
            /\ ~PendingCollision)
       => /\ rotations' = rotations + 1
          /\ Grid' = PerformXRotate(Grid, tiles, Width, Height,
                                    Player.GridX, Player.GridY,
                                    xRotateDirection).Grid
          /\ Cooldowns'[PendingAction] >= CooldownOf(PendingAction) - 1
          /\ ~xRotateActive'
          /\ TurnManager'.CurrentState = WaitingForEndTurn]_vars

\* C15: a tick that delivers a cancel to a pending rotation leaves the
\* maze as it was, starts no cooldown, clears every highlight and the
\* pending flag and puts the phase at WaitingForAction
CancelLeavesMazeAndCooldowns ==
    [][(lastTick' = "XRotateConfirmation" /\ hist'.cancelKey)
       => /\ MazeKept
          /\ NoCooldownConsumed
          /\ NoHighlightLeft
          /\ ~xRotateActive'
          /\ TurnManager'.CurrentState = WaitingForAction]_vars

\* C16: a tick that delivers a confirmation to a pending rotation whose
\* check reports a collision leaves the maze as it was, starts no
\* cooldown, clears every highlight and the pending flag and puts the
\* phase at WaitingForAction
CollisionAbortsRotation ==
    [][(lastTick' = "XRotateConfirmation" /\ hist'.confirmKey
            /\ PendingCollision)
       => /\ MazeKept
          /\ NoCooldownConsumed
          /\ NoHighlightLeft
          /\ ~xRotateActive'
          /\ TurnManager'.CurrentState = WaitingForAction]_vars

\* a confirmed rotation has just been aborted by the collision check
RotationAborted ==
    /\ lastTick = "XRotateConfirmation"
    /\ hist.confirmKey
    /\ call.op = "CheckXRotateCollisions"
    /\ call.result
    /\ ~xRotateActive
    /\ TurnManager.CurrentState = WaitingForAction

\* C19: on the player's turn in WaitingForMove with the player idle, a
\* directional input whose target cell fails IsValidMove changes nothing
\* of the player (grid and pixel coordinates, destination, Moving) and
\* leaves the turn manager where it is
InvalidMoveChangesNothing ==
    [][(lastTick' = "PlayerMove"
            /\ (hist'.dx # 0 \/ hist'.dy # 0)
            /\ ~Player.Moving
            /\ ~IsValidMove(Player.GridX + hist'.dx, Player.GridY + hist'.dy))
       => /\ Player' = Player
          /\ ~Player'.Moving
          /\ TurnManager' = TurnManager]_vars

\* the idle player has just been given a direction into an invalid cell
InvalidMoveTried ==
    /\ lastTick = "PlayerMove"
    /\ hist.dx # 0 \/ hist.dy # 0
    /\ ~Player.Moving
    /\ ~IsValidMove(Player.GridX + hist.dx, Player.GridY + hist.dy)
    /\ TurnManager = [CurrentState |-> WaitingForMove,
                      CurrentOwner |-> PlayerTurn]

\* C18: for a fixed seed Generate is deterministic: a second call for
\* the same seed, width and height returns a grid with the same tile type
\* in every cell and the same goal coordinates as the first
SameSeedSameMaze ==
    (Built /\ hist.runs = 2)
    => /\ GridTypes = hist.Types
       /\ GoalX = hist.GoalX
       /\ GoalY = hist.GoalY

\* C13: one TryMove on an NPC that is idle with its moved flag unset
\* leaves the flag set, whether or not a neighbouring cell is valid; when
\* none is, the NPC keeps its grid position and is not moving
TryMoveSetsFlag ==
    [][(hist'.op = "TryMove"
            /\ ~NPCs[hist'.npc].Moving /\ ~NPCs[hist'.npc].HasMoved)
       => /\ NPCs'[hist'.npc].HasMoved
          /\ Boxed(hist'.npc)
             => /\ NPCs'[hist'.npc].GridX = NPCs[hist'.npc].GridX
                /\ NPCs'[hist'.npc].GridY = NPCs[hist'.npc].GridY
                /\ ~NPCs'[hist'.npc].Moving]_vars

\* TryMove has just flagged an NPC that has no valid neighbour
BoxedNPCForfeited ==
    /\ hist.op = "TryMove"
    /\ Boxed(hist.npc)
    /\ NPCs[hist.npc].HasMoved
    /\ ~NPCs[hist.npc].Moving

\* C20: one ProcessTurn call changes at most one NPC: it never sets the
\* moved flag of, or moves, more than one NPC
ProcessTurnChangesOneNPC ==
    [][hist'.op = "ProcessTurn"
       => Cardinality({i \in 1 .. Len(NPCs) : NPCs'[i] # NPCs[i]}) <= 1]_vars

\* the Floor cells among the four orthogonal neighbours of (x,y)
OwnFloorNeighbours(x, y) ==
    {c \in {<<x, y - 1>>, <<x, y + 1>>, <<x - 1, y>>, <<x + 1, y>>} :
        TypeAt(c[1], c[2]) = Floor}

\* C26: addRandomPaths turns an interior Wall cell (x,y) into Floor only
\* if at least two of its own four orthogonal neighbours are Floor at
\* that moment
WallOpenedBetweenOwnFloors ==
    [][gen.pc = "paths"
       => \A x \in 1 .. Width - 2 : \A y \in 1 .. Height - 2 :
              (TypeAt(x, y) = Wall /\ tiles'[Grid[y][x]].Type = Floor)
              => Cardinality(OwnFloorNeighbours(x, y)) >= 2]_vars

\* C23: for coordinates outside the grid IsWall is true, IsGoal is false
\* and IsValidMove is false; for coordinates inside, IsValidMove is true
\* exactly when the tile of the cell is not a Wall
QueriesRespectBounds ==
    \A x \in -1 .. Width : \A y \in -1 .. Height :
        IF x < 0 \/ x >= Width \/ y < 0 \/ y >= Height
        THEN /\ IsWallIn(Grid, tiles, Width, Height, x, y)
             /\ ~IsGoalIn(Grid, tiles, Width, Height, x, y)
             /\ ~MazeIsValidMove(Mgr, x, y)
        ELSE MazeIsValidMove(Mgr, x, y) <=> tiles[Grid[y][x]].Type # Wall

\* a rotated maze with a Goal cell, a Floor cell and an interior Wall
QueriedOnRotatedMaze ==
    /\ Built
    /\ rotations = 1
    /\ \E x \in 1 .. Width - 2 : \E y \in 1 .. Height - 2 :
           IsWallIn(Grid, tiles, Width, Height, x, y)
    /\ \E x \in 1 .. Width - 2 : \E y \in 1 .. Height - 2 :
           IsGoalIn(Grid, tiles, Width, Height, x, y)
    /\ \E x \in 1 .. Width - 2 : \E y \in 1 .. Height - 2 :
           MazeIsValidMove(Mgr, x, y) /\ TypeAt(x, y) = Floor

\* C24: in every state of a generated maze, also after any committed row
\* rotations, exactly one grid cell holds a Goal-typed tile
ExactlyOneGoalCell ==
    Built => Cardinality(GoalCells) = 1

\* the cells whose tile reports highlighted
HighlightedCells ==
    {c \in (0 .. Width - 1) \X (0 .. Height - 1) :
        tiles[Grid[c[2]][c[1]]].Highlighted}

\* C27: after HighlightXRotation(playerX, playerY) the highlighted cells
\* are exactly the cells of row playerY in columns 1..width-2 other than
\* playerX, also when the highlight follows a rotation; after
\* ClearHighlights or PerformXRotate no cell is highlighted
HighlightIsTheRotatedRow ==
    /\ call.op = "HighlightXRotation"
       => HighlightedCells =
              {<<x, call.playerY>> : x \in (1 .. Width - 2) \ {call.playerX}}
    /\ call.op \in {"ClearHighlights", "PerformXRotate"}
       => HighlightedCells = {}

\* the entity a run of MoveSpec moves
Mover == IF hist.entity = "player" THEN Player ELSE NPCs[1]

\* the distance of the entity e from its destination, summed over the axes
Remaining(e) == Abs(e.DestX - e.X) + Abs(e.DestY - e.Y)

\* C28: an Update with step moveSpeed of an entity whose destination was
\* set along one axis moves the position toward the destination by exactly
\* moveSpeed without passing it while the remaining distance is at least
\* moveSpeed, and returns false; once the remaining distance is below
\* moveSpeed it snaps onto the destination, goes idle and returns true;
\* on an idle entity it changes nothing and returns false
UpdateStepsThenSnaps ==
    [][(hist'.op = "Update" /\ hist.oneAxis)
       => IF ~Mover.Moving
          THEN Mover' = Mover /\ ~hist'.arrived
          ELSE IF Remaining(Mover) >= hist.moveSpeed
          THEN /\ Remaining(Mover') = Remaining(Mover) - hist.moveSpeed
               /\ Abs(Mover'.X - Mover.X) + Abs(Mover'.Y - Mover.Y)
                      = hist.moveSpeed
               /\ Mover'.Moving
               /\ ~hist'.arrived
          ELSE /\ Mover'.X = Mover.DestX
               /\ Mover'.Y = Mover.DestY
               /\ ~Mover'.Moving
               /\ hist'.arrived]_vars

\* an entity has just arrived after moving in the negative direction with
\* a step that does not divide the distance
ArrivedAfterUnevenSteps ==
    /\ hist.op = "Update"
    /\ hist.arrived
    /\ hist.oneAxis
    /\ TileSize % hist.moveSpeed # 0
    /\ hist.moveSpeed < TileSize
    /\ Mover.GridX * TileSize = Mover.X
    /\ Mover.GridX = 0 \/ hist.entity = "npc"

\* C29: SetDestination called on a player that is already moving is a
\* no-op: GridX, GridY, DestX, DestY and Moving stay as they are
SetDestinationOnlyWhenIdle ==
    [][(hist'.op = "SetDestination" /\ Player.Moving)
       => /\ Player'.GridX = Player.GridX
          /\ Player'.GridY = Player.GridY
          /\ Player'.DestX = Player.DestX
          /\ Player'.DestY = Player.DestY
          /\ Player'.Moving = Player.Moving]_vars

\* the cooldown of action a counts down over this step
CountsDown(a) ==
    Cooldowns'[a] = IF Cooldowns[a] > 0 THEN Cooldowns[a] - 1 ELSE 0

\* every cooldown lies between 0 and the full duration of its action
CooldownsInRange ==
    \A a \in DOMAIN Cooldowns : Cooldowns[a] \in 0 .. CooldownOf(a)

\* C30, as stated: on every tick of Update every non-zero cooldown
\* decreases by exactly one and every zero cooldown stays zero, and every
\* cooldown is always between 0 and its full duration
CooldownsOnlyCountDown ==
    /\ []CooldownsInRange
    /\ [][Built => \A a \in DOMAIN Cooldowns : CountsDown(a)]_vars

\* C30, amended: every cooldown is always between 0 and its full
\* duration; on a tick that restarts the game every cooldown ends at 0, on
\* a tick that performs a rotation the cooldown of the action used ends at
\* its full duration less one, and on every tick every other cooldown
\* counts down by one, or stays at zero, whatever the game state, the
\* owner and the phase
CooldownsCountDownBetweenUses ==
    /\ []CooldownsInRange
    /\ [][Built
          => \A a \in DOMAIN Cooldowns :
                IF gen'.pc # "done" THEN Cooldowns'[a] = 0
                ELSE IF rotations' = rotations + 1 /\ a = PendingAction
                THEN Cooldowns'[a] = CooldownOf(a) - 1
                ELSE CountsDown(a)]_vars

\* a tick has run in GameOver that left a cooldown still running
CooldownRunsInGameOver ==
    /\ CurrentState = GameOver
    /\ lastTick = "GameOver"
    /\ \E a \in DOMAIN Cooldowns : Cooldowns[a] > 0

\* C22: a step rebuilds the game only when the restart key is down in
\* GameOver; that step leaves owner = PlayerTurn, phase = WaitingForMove,
\* game state = Playing, no winner, no pending rotation, every cooldown 0,
\* the player idle at (1,1), the NPCs idle at (3,3) and (5,5) with their
\* moved flags unset, and a fresh maze about to be generated; in any other
\* game state a tick with the restart key down keeps the maze, the player
\* and the running cooldowns
RestartOnlyInGameOver ==
    [][Built
       => /\ gen'.pc # "done" => CurrentState = GameOver /\ hist'.space
          /\ (CurrentState = GameOver /\ hist'.space)
             => /\ TurnManager' = [CurrentState |-> WaitingForMove,
                                   CurrentOwner |-> PlayerTurn]
                /\ CurrentState' = Playing
                /\ Winner' = ""
                /\ ~xRotateActive'
                /\ \A a \in DOMAIN Cooldowns' : Cooldowns'[a] = 0
                /\ <<Player'.GridX, Player'.GridY>> = <<1, 1>>
                /\ <<Player'.X, Player'.Y>> = <<TileSize, TileSize>>
                /\ ~Player'.Moving
                /\ Len(NPCs') = 2
                /\ <<NPCs'[1].GridX, NPCs'[1].GridY>> = <<3, 3>>
                /\ <<NPCs'[2].GridX, NPCs'[2].GridY>> = <<5, 5>>
                /\ \A i \in 1 .. 2 :
                      /\ ~NPCs'[i].Moving
                      /\ ~NPCs'[i].HasMoved
                      /\ NPCs'[i].X = NPCs'[i].GridX * TileSize
                      /\ NPCs'[i].Y = NPCs'[i].GridY * TileSize
                /\ gen' = GenLocals("init")
                /\ Grid' = NewStateGrid(Width, Height)
                /\ tiles' = NewStateTiles(Width, Height)
          /\ (CurrentState # GameOver /\ hist'.space)
             => /\ UNCHANGED <<gen, rng, Grid, tiles, Player, CurrentState,
                               Winner, rotations>>
                /\ \A a \in DOMAIN Cooldowns : CountsDown(a)]_vars

\* the maze of a restarted game has been generated and no tick has run in
\* the new game
RestartedGameBuilt ==
    /\ lastTick = "Restart"
    /\ Built
    /\ CurrentState = Playing

\* the positions in the catalog of the actions whose cooldown cd has at 0
AvailableAt(cd) == {i \in 1 .. Len(Actions) : cd[Actions[i].Type] = 0}

\* the n-th available action in catalog order, NoAction if there is none
NthAvailable(cd, n) ==
    IF n < 1 \/ n > Cardinality(AvailableAt(cd)) THEN NoAction
    ELSE Actions[CHOOSE i \in AvailableAt(cd) :
                     Cardinality({j \in AvailableAt(cd) : j < i}) = n - 1]

\* C21: GetActionByNumber(n) is the n-th of the currently available
\* actions in catalog order, and nothing for n < 1 or n above their
\* number; a SelectingAction tick that delivers such a number and no
\* cancel leaves the phase, the pending flag and the highlights as they
\* are and starts no cooldown
NumberSelectsNthAvailable ==
    /\ [](\A n \in -1 .. MaxDigit + 1 :
             GetActionByNumber(Cooldowns, n) = NthAvailable(Cooldowns, n))
    /\ [][(/\ lastTick' = "SelectingAction"
           /\ ~hist'.cancelKey
           /\ hist'.digit \notin 1 .. Cardinality(AvailableAt(Cooldowns)))
          => /\ TurnManager' = TurnManager
             /\ xRotateActive' = xRotateActive
             /\ tiles' = tiles
             /\ NoCooldownConsumed]_vars

\* a SelectingAction tick delivered the number 2 while only one action
\* was available, and the phase is still SelectingAction
SecondOfOneAvailableSelected ==
    /\ lastTick = "SelectingAction"
    /\ hist.digit = 2
    /\ ~hist.cancelKey
    /\ \E a \in DOMAIN Cooldowns : Cooldowns[a] > 0
    /\ \E a \in DOMAIN Cooldowns : Cooldowns[a] = 0
    /\ TurnManager.CurrentState = SelectingAction
    /\ ~xRotateActive

\* C25: from every state with owner = NPCTurn and phase =
\* ProcessingNPCTurn, ticking on without input leads to a state with
\* owner = PlayerTurn and phase = WaitingForMove, or to GameOver
NPCTurnEnds ==
    (/\ Built
     /\ CurrentState = Playing
     /\ TurnManager = [CurrentState |-> ProcessingNPCTurn,
                       CurrentOwner |-> NPCTurn])
    ~> (\/ TurnManager = [CurrentState |-> WaitingForMove,
                          CurrentOwner |-> PlayerTurn]
        \/ CurrentState = GameOver)

\* the NPCs' turn has just been handed back with every NPC settled
NPCTurnHandedBack ==
    /\ lastTick = "NPCTurn"
    /\ CurrentState = Playing
    /\ TurnManager = [CurrentState |-> WaitingForMove,
                      CurrentOwner |-> PlayerTurn]
    /\ \A i \in 1 .. Len(NPCs) : NPCs[i].HasMoved /\ ~NPCs[i].Moving
    /\ \E i \in 1 .. Len(NPCs) :
          <<NPCs[i].GridX, NPCs[i].GridY>> \notin {<<3, 3>>, <<5, 5>>}

Movers ==
    {k \in 0 .. Len(NPCs) :
        IF k = 0 THEN Player.Moving ELSE NPCs[k].Moving}

\* C32: at most one entity is moving at a time, none is moving while the
\* phase is WaitingForAction, SelectingAction or WaitingForEndTurn, and
\* no step rotates the grid while an entity is moving
OneMoverNoneWhileActing ==
    /\ [](/\ Cardinality(Movers) <= 1
          /\ TurnManager.CurrentState \in {WaitingForAction, SelectingAction,
                                           WaitingForEndTurn}
             => Movers = {})
    /\ [][rotations' = rotations + 1 => Movers = {}]_vars

\* the second NPC is on its way on a rotated maze, alone
SecondNPCMovesAlone ==
    /\ Movers = {2}
    /\ NPCs[1].HasMoved
    /\ rotations > 0
    /\ TurnManager.CurrentState = ProcessingNPCTurn

\* the actions whose cooldown is running
OnCooldown == {a \in DOMAIN Cooldowns : Cooldowns[a] > 0}

\* C34: within one player turn at most one rotation is performed and at
\* most one action is put on cooldown, whatever inputs the ticks deliver:
\* no rotation follows another before the turn changes hands, and a
\* rotation puts exactly the action it used on cooldown
OneRotationPerTurn ==
    /\ [](turnRotations <= 1)
    /\ [][rotations' = rotations + 1
          => /\ turnRotations = 0
             /\ OnCooldown' \ OnCooldown = {PendingAction}]_vars

\* the entities standing idle on a cell that holds a Goal tile: 0 for the
\* player, i for the i-th NPC
IdleOnGoal ==
    {k \in 0 .. Len(NPCs) :
        IF k = 0
        THEN /\ ~Player.Moving
             /\ IsGoalIn(Grid, tiles, Width, Height, Player.GridX,
                         Player.GridY)
        ELSE /\ ~NPCs[k].Moving
             /\ IsGoalIn(Grid, tiles, Width, Height, NPCs[k].GridX,
                         NPCs[k].GridY)}

\* C35: whenever an entity is idle on a cell whose tile is the Goal, the
\* game is in GameOver with a winner recorded
IdleOnGoalEndsGame ==
    (Built /\ IdleOnGoal # {}) => (CurrentState = GameOver /\ Winner # "")

\* C36: the cached goal position (GoalX, GoalY) designates the cell that
\* holds the Goal tile in every built maze, rotated or not: that cell is
\* Goal-typed and no other cell is
GoalCacheDesignatesGoalTile ==
    Built => /\ IsGoalIn(Grid, tiles, Width, Height, GoalX, GoalY)
             /\ \A c \in GoalCells : c = Pos(GoalX, GoalY)

\* C37: in every built maze, rotated or not, the tile in cell (x, y) of the
\* grid records that position: its X is x and its Y is y
TilesRecordTheirCell ==
    Built => \A y \in 0 .. Height - 1 :
               \A x \in 0 .. Width - 1 :
                 tiles[Grid[y][x]].X = x /\ tiles[Grid[y][x]].Y = y

\* C38: the owner is the NPCs exactly when the phase is ProcessingNPCTurn
\* (every other phase occurs only with the player as owner), and the game
\* state is AnsweringTrivia exactly when the phase is WaitingForTrivia
OwnerPhaseStateAgree ==
    Built =>
      /\ TurnManager.CurrentOwner = NPCTurn
           <=> TurnManager.CurrentState = ProcessingNPCTurn
      /\ TurnManager.CurrentOwner \in {PlayerTurn, NPCTurn}
      /\ CurrentState = AnsweringTrivia
           <=> TurnManager.CurrentState = WaitingForTrivia

\* the NPCs own the turn and are being processed, after the player has
\* answered a trivia question and ended a turn
NPCsOwnProcessingPhase ==
    /\ Built
    /\ TurnManager.CurrentOwner = NPCTurn
    /\ TurnManager.CurrentState = ProcessingNPCTurn
    /\ TriviaMgr.Answered
    /\ CurrentState = Playing

\* C39: while the rotation prompt is open (xRotateActive), the player owns
\* the turn, the phase is SelectingAction, the pending direction is -1 or
\* +1 and the action of that direction is off cooldown; the flag is never
\* set under another owner or in another phase
PromptOnlyWhileSelecting ==
    (Built /\ xRotateActive) =>
      /\ TurnManager.CurrentOwner = PlayerTurn
      /\ TurnManager.CurrentState = SelectingAction
      /\ xRotateDirection \in {-1, 1}
      /\ Cooldowns[PendingAction] = 0

\* the prompt for a rotation to the right is open while XRotateLeft is
\* still on cooldown from an earlier rotation
PromptOpenWhileOtherOnCooldown ==
    /\ Built
    /\ xRotateActive
    /\ xRotateDirection = 1
    /\ Cooldowns[XRotateLeft] > 0

\* C40: since the turn last changed hands the player has started at most
\* one move and each NPC at most one; the player starts no move while the
\* NPCs own the turn and no NPC starts one while the player owns it
OneMovePerTurn ==
    /\ [](\A k \in DOMAIN turnMoves : turnMoves[k] <= 1)
    /\ [][/\ turnMoves'[0] > turnMoves[0]
             => TurnManager.CurrentOwner = PlayerTurn
          /\ (\E k \in 1 .. 2 : turnMoves'[k] > turnMoves[k])
             => TurnManager.CurrentOwner = NPCTurn]_vars

\* both NPCs have started their move of the turn, the player none
BothNPCsMovedThisTurn ==
    /\ Built
    /\ TurnManager.CurrentOwner = NPCTurn
    /\ turnMoves[0] = 0
    /\ turnMoves[1] = 1
    /\ turnMoves[2] = 1

\* C33: every change of the game state and the phase is made inside a
\* tick: the tick that receives a trivia answer ends with the game state
\* Playing and the phase WaitingForAction, and no step of background work
\* between ticks changes the game state, the phase or the owner
AnswerAppliedInsideTick ==
    [][/\ (lastTick' = "Update" /\ hist'.answered)
          => /\ CurrentState' = Playing
             /\ TurnManager'.CurrentState = WaitingForAction
       /\ lastTick' # "Update"
          => UNCHANGED <<CurrentState, TurnManager>>]_vars

====
